---- MODULE Spec2Model ----
(***************************************************************************)
(* Combat and progression layer of space-3d.                               *)
(*                                                                         *)
(* Twelve specifications share this module and its initial state:          *)
(*   Spec         the progression ledger (ProgressionManager, with the     *)
(*                player's weapon level, the station and the managers'     *)
(*                collected-resource counters it reads), frame by frame;   *)
(*   SpecCampaign the ProgressionManager commands alone, up to victory;    *)
(*   SpecCombat   the per-frame collision passes of AsteroidManager and    *)
(*                EnemyManager over player projectiles, with the squad     *)
(*                registry;                                                *)
(*   SpecSquad    the tactical state machine of one Squad;                 *)
(*   SpecMissile  the homing missiles of MissileManager and their targets; *)
(*   SpecFire     the player's fire control (cooldown and bursts);         *)
(*   SpecConfig   WeaponSystem.getWeaponConfig over integer levels;        *)
(*   SpecRoster   EnemyManager's enemy list and the squads' rosters and    *)
(*                formations;                                              *)
(*   SpecEnemy    one Enemy: formation keeping, combat movement and fire;  *)
(*   SpecTurret   one Turret and the enemies it aims at;                   *)
(*   SpecSalvage  SpecCombat with the missiles' asteroid collisions;       *)
(*   SpecFragments the resource fragments of the two managers and the      *)
(*                counters the ledger drains.                              *)
(*                                                                         *)
(* Time is counted in ticks of 1/TicksPerSecond s; distances of the squad  *)
(* model in 1/TicksPerSecond units, so that speed x deltaTime is integral. *)
(***************************************************************************)
EXTENDS Integers, Sequences, FiniteSets, TLC

VARIABLES
    \* ---- ProgressionManager ----
    resources, currentSector, stationCost, defenseCost,
    shipGunsLevel, stationLevel, defenseLevel,
    victory,                \* onVictory has been invoked
    \* ---- Player / Station / EnemyManager / AsteroidManager, as the ledger sees them ----
    weaponLevel,            \* Player.weaponLevel (resourceMultiplier is derived from it)
    station,                \* [level, resourceGeneration, resourceAccumulator]
    turrets,                \* Station.turrets: sequence of Turret.level
    asteroidCollected,      \* AsteroidManager.collectedResources
    enemyCollected,         \* EnemyManager.collectedResources
    difficulty2,            \* 2 x EnemyManager.difficulty
    frame,                  \* number of Game.update calls started
    call,                   \* the last ledger operation: its name, result and pre-state
    \* ---- combat: Player.projectiles, EnemyManager, AsteroidManager ----
    projectiles,            \* Player.projectiles
    enemies,                \* EnemyManager.enemies
    squads,                 \* EnemyManager.squads
    asteroids,              \* AsteroidManager.asteroids
    phase,                  \* which update of the frame comes next
    cframe,                 \* frames started
    squadsSpawned,          \* spawnSquad calls so far
    asteroidsSpawned,       \* spawnAsteroid calls so far
    hitLog,                 \* the direct hits resolved by the last collision pass
    asteroidLog,            \* the asteroids the last AsteroidManager.update removed
    \* ---- one Squad ----
    sq,                     \* the squad's fields, and whether the registry holds it
    sqPrev,                 \* what the last Squad.update started from
    sqElapsed,              \* simulated time since this cycle's engaging began
    sqCycles,               \* completed cycles: returns to approaching
    \* ---- MissileManager and its missiles ----
    missiles,               \* MissileManager.missiles
    missileCount,           \* MissileManager.missileCount
    fireCooldown,           \* MissileManager.fireCooldown, in ticks
    menemies,               \* the enemies the missiles see, by identity
    mphase,                 \* which step of the frame comes next for the missiles
    mPrev,                  \* what the last Missile.update held, searched and steered at
    \* ---- Player: trigger, cooldowns and burst ----
    gun,                    \* isShooting, shootCooldown, burstCooldown, burstShotsRemaining
    shot,                   \* the last shot fired, and the time since it
    \* ---- WeaponSystem.getWeaponConfig ----
    cfgCall,                \* the last call: its argument and the config returned
    \* ---- squad rosters ----
    rEnemies,               \* EnemyManager.enemies: [id, isAlive, squad]
    rSquads,                \* EnemyManager.squads: [id, enemies, formationPositions]
    rGone,                  \* the enemies spliced out of EnemyManager.enemies
    rSpawned,               \* spawnSquad calls so far
    rLog,                   \* the addEnemy / removeEnemy calls of the last update
    \* ---- one Enemy: movement and fire ----
    en,                     \* the enemy's fields
    enPrev,                 \* what its last update did
    enUpdates,              \* Enemy.update calls so far
    \* ---- one Turret and the enemies it sees ----
    tur,                    \* the turret's fields
    tEnemies,               \* EnemyManager.enemies: [isAlive, dist, bearing]
    tphase,                 \* which call of Game.update is next
    tFrames,                \* frames so far
    tPrev,                  \* what the turret's last update did
    \* ---- resource fragments of the two managers ----
    fragments,              \* AsteroidManager.fragments
    enemyFragments,         \* EnemyManager.enemyFragments
    fTick,                  \* this frame's deltaTime, player position, gravity range
    fphase,                 \* which call of Game.update is next
    fFrames,                \* frames so far
    fMade,                  \* fragments constructed so far
    fLog,                   \* how each fragment left its list
    fCalls                  \* the getCollectedResources calls: what they returned

ledgerVars == <<resources, currentSector, stationCost, defenseCost,
                shipGunsLevel, stationLevel, defenseLevel, weaponLevel,
                station, turrets, asteroidCollected, enemyCollected,
                difficulty2, frame, call, victory>>

combatVars == <<projectiles, enemies, squads, asteroids, phase, cframe,
                squadsSpawned, asteroidsSpawned, hitLog, asteroidLog>>

squadVars == <<sq, sqPrev, sqElapsed, sqCycles>>

missileVars == <<missiles, missileCount, fireCooldown, menemies, mphase, mPrev>>

\* everything outside the ledger, the combat passes and the squad
gunVars == <<gun, shot>>

configVars == <<cfgCall>>

rosterVars == <<rEnemies, rSquads, rGone, rSpawned, rLog>>

enemyVars == <<en, enPrev, enUpdates>>

turretVars == <<tur, tEnemies, tphase, tFrames, tPrev>>

fragmentVars == <<fragments, enemyFragments, fTick, fphase, fFrames, fMade, fLog, fCalls>>

restVars == <<missileVars, gunVars, configVars, rosterVars, enemyVars, turretVars,
              fragmentVars>>

vars == <<ledgerVars, combatVars, squadVars, restVars>>

----------------------------------------------------------------------------
(* Bounds *)

TicksPerSecond == 10
MaxResources   == 1100
MaxLateResources == 3900
ConfigLevelSpan  == 50
MaxRosterSquads  == 2
MaxRosterEnemies == 9
MaxDeadListed    == 2
MaxEnemyUpdates  == 4
MaxTurretFrames  == 3
MaxFragmentFrames == 3
MaxFragmentsMade == 2
MaxTurretEnemies == 2
MaxFragments   == 10
MaxFrames      == 1
MaxEnemyValue  == 3

CentisPerSecond     == 100
MaxMissilesFired    == 2
MaxMissilesInFlight == 1
NumMissileEnemies   == 2

\* Game.update caps deltaTime at 0.1 s
MaxDt == TicksPerSecond \div 10

----------------------------------------------------------------------------
(* WeaponSystem *)

RECURSIVE Pow(_, _)
Pow(b, n) == IF n = 0 THEN 1 ELSE b * Pow(b, n - 1)

\* floor(BASE_COST x COST_MULTIPLIER^(level-1)) in exact arithmetic
\* (1.4^n = 7^n / 5^n; the quotient is arranged to stay inside 32 bits)
ExactUpgradeCost(level) ==
    LET n == level - 1
    IN  IF n < 2 THEN (50 * Pow(7, n)) \div Pow(5, n)
                 ELSE (2 * Pow(7, n)) \div Pow(5, n - 2)

\* Math.pow(1.4, 2) is 1.9599999999999997 in IEEE-754 doubles, so the code's
\* Math.floor(50 * Math.pow(1.4, level - 1)) is 97 at level 3; at every other
\* level up to 11 the double product floors to the exact value.
PowRoundingLoss(level) == IF level = 3 THEN 1 ELSE 0

calculateUpgradeCost(level) ==
    IF level = 0 THEN 0
    ELSE IF level = 1 THEN 0
    ELSE ExactUpgradeCost(level) - PowRoundingLoss(level)

\* 100 x (1.0 + level x 0.15)
calculateResourceMultiplier(level) == 100 + level * 15

\* mutant: the weapon multiplier is not applied
ApplyMultiplier_Unscaled(amount, level) == amount
\* Math.floor(amount * weaponMultiplier)
ApplyMultiplier(amount, level) == (amount * calculateResourceMultiplier(level)) \div 100

----------------------------------------------------------------------------
(* Player, Station *)

Player_upgradeWeapons(wl) == IF wl >= 10 THEN wl ELSE wl + 1

Station_upgrade(st) ==
    LET lvl == st.level + 1
    IN  [st EXCEPT !.level = lvl,
                   !.resourceGeneration =
                       IF lvl = 3 THEN 2
                       ELSE IF lvl >= 4 THEN 5
                       ELSE st.resourceGeneration]

\* Station.update: resourceAccumulator += resourceGeneration * deltaTime
\* (accumulator kept in 1/TicksPerSecond resources)
Station_update(st, dt) ==
    IF st.resourceGeneration > 0
    THEN [st EXCEPT !.resourceAccumulator = @ + st.resourceGeneration * dt]
    ELSE st

\* Station.getCollectedResources: amount = floor(acc); acc -= amount
Station_collected(st) == st.resourceAccumulator \div TicksPerSecond
Station_drained(st) ==
    [st EXCEPT !.resourceAccumulator = @ - Station_collected(st) * TicksPerSecond]

----------------------------------------------------------------------------
(* ProgressionManager *)

getShipGunsCost == calculateUpgradeCost(shipGunsLevel + 1)
getStationCost  == stationCost
getDefenseCost  == defenseCost

canUpgradeShipGuns ==
    IF shipGunsLevel >= 10 THEN FALSE ELSE resources >= getShipGunsCost
\* mutant: the affordability check compares against nothing
canUpgradeStation_NoCheck == TRUE
canUpgradeStation == resources >= stationCost
canUpgradeDefense == resources >= defenseCost

canHyperspace ==
    IF currentSector >= 4 THEN FALSE
    ELSE shipGunsLevel >= 3 /\ stationLevel >= 3 /\ defenseLevel >= 3

\* what an upgrade may touch, for before/after comparison
LedgerState == [resources |-> resources, currentSector |-> currentSector,
                stationCost |-> stationCost, defenseCost |-> defenseCost,
                shipGunsLevel |-> shipGunsLevel, stationLevel |-> stationLevel,
                defenseLevel |-> defenseLevel, weaponLevel |-> weaponLevel,
                station |-> station, turrets |-> turrets,
                difficulty2 |-> difficulty2]

Called(op, ret, cost) == [op |-> op, ret |-> ret, cost |-> cost, pre |-> LedgerState,
                          A |-> 0, S |-> 0, E |-> 0, dt |-> 0]

\* AsteroidManager/EnemyManager.getCollectedResources: return the counter, leave 0
getCollectedResources_reset(counter) == 0

Init ==
    /\ resources = 100
    /\ currentSector = 1
    /\ stationCost = 100
    /\ defenseCost = 75
    /\ shipGunsLevel = 1
    /\ stationLevel = 0
    /\ defenseLevel = 0
    /\ victory = FALSE
    /\ weaponLevel = 1
    /\ station = [level |-> 1, resourceGeneration |-> 0, resourceAccumulator |-> 0]
    /\ turrets = << >>
    /\ asteroidCollected = 0
    /\ enemyCollected = 0
    /\ difficulty2 = 2
    /\ frame = 0
    /\ call = [op |-> "none", ret |-> FALSE, cost |-> 0,
               pre |-> [resources |-> 100, currentSector |-> 1,
                        stationCost |-> 100, defenseCost |-> 75,
                        shipGunsLevel |-> 1, stationLevel |-> 0,
                        defenseLevel |-> 0, weaponLevel |-> 1,
                        station |-> [level |-> 1, resourceGeneration |-> 0,
                                     resourceAccumulator |-> 0],
                        turrets |-> << >>, difficulty2 |-> 2],
               A |-> 0, S |-> 0, E |-> 0, dt |-> 0]
    /\ projectiles = << >>
    /\ enemies = << >>
    /\ squads = << >>
    /\ asteroids = << >>
    /\ phase = "player"
    /\ cframe = 0
    /\ squadsSpawned = 0
    /\ asteroidsSpawned = 0
    /\ hitLog = << >>
    /\ asteroidLog = << >>
    /\ sq = [spawned |-> FALSE, inRegistry |-> FALSE, members |-> 0,
             state |-> "approaching", targetType |-> "player",
             stateTimer |-> 0, formationCenter |-> 0, rallyPoint |-> 0]
    /\ sqPrev = [state |-> "none", distance |-> 0, dt |-> 0, stateTimer |-> 0,
                 targetType |-> "player", flip |-> "keep", empty |-> FALSE]
    /\ sqElapsed = 0
    /\ sqCycles = 0
    /\ missiles = << >>
    /\ missileCount = 10
    /\ fireCooldown = 0
    /\ menemies = [i \in 1..NumMissileEnemies |->
                      [status |-> "none", isAlive |-> FALSE, health2 |-> 0,
                       distance |-> 0, angle |-> 0]]
    /\ gun = [isShooting |-> FALSE, shootCooldown |-> 0, burstCooldown |-> 0,
              burstShotsRemaining |-> 0]
    /\ shot = [fired |-> FALSE, first |-> FALSE, gap |-> 0, since |-> 0,
               level |-> 0, last |-> FALSE, heldSince |-> FALSE, held |-> FALSE,
               after |-> [level |-> 0, last |-> FALSE]]
    /\ cfgCall = [called |-> FALSE, level |-> 1, config |-> << >>]
    /\ rEnemies = << >>
    /\ rSquads = << >>
    /\ rGone = {}
    /\ rSpawned = 0
    /\ rLog = << >>
    /\ en = [spawned |-> FALSE, type |-> "scout", hasSquad |-> FALSE, position |-> 0,
             velocity |-> 0, target |-> "player", inFormation |-> FALSE,
             formationTarget |-> [set |-> FALSE, pos |-> 0],
             combatTarget |-> [set |-> FALSE, pos |-> 0],
             shootCooldown |-> 0, projectiles |-> 0]
    /\ enPrev = [called |-> FALSE, mode |-> "none", zone |-> "none",
                 distanceError |-> 0, speedMultiplier |-> 0, moved |-> 0,
                 fired |-> FALSE, cooldown |-> 0, shotDistance |-> 0]
    /\ enUpdates = 0
    /\ tur = [level |-> 1, currentRotation |-> 0, targetRotation |-> 0,
              shootCooldown |-> 0, projectiles |-> 0]
    /\ tEnemies = << >>
    /\ tphase = "station"
    /\ tFrames = 0
    /\ fragments = << >>
    /\ enemyFragments = << >>
    /\ fTick = [deltaTime |-> 0, playerPos |-> 0, gravityRange |-> 0]
    /\ fphase = "asteroidManager"
    /\ fFrames = 0
    /\ fMade = 0
    /\ fLog = << >>
    /\ fCalls = << >>
    /\ tPrev = [called |-> FALSE, target |-> 0, targetAlive |-> FALSE,
                targetDist |-> 0, nearestLive |-> 0, fired |-> FALSE,
                aimError |-> 0, cooldown |-> 0]
    /\ mphase = "enemies"
    /\ mPrev = [called |-> FALSE, held |-> 0, heldAlive |-> FALSE,
                guided |-> FALSE, searched |-> FALSE, afterDeath |-> FALSE,
                found |-> 0, foundAlive |-> FALSE, narrowBest |-> 0, wideBest |-> 0,
                tracked |-> 0, trackedAlive |-> FALSE, target |-> 0]

\* --- Game.update: the calls the ledger depends on, in the code's order ---
\*   station.update(dt); asteroidManager.update (n fragments of value 1 are
\*   collected); enemyManager.update (fragments worth v are collected);
\*   progressionManager.update()
GameUpdate ==
    /\ frame < MaxFrames
    /\ frame' = frame + 1
    /\ \E dt \in 0..MaxDt, n \in {0, MaxFragments}, v \in {0, MaxEnemyValue} :
         LET st1 == Station_update(station, dt)
             a1  == asteroidCollected + n
             e1  == enemyCollected + v
             \* ProgressionManager.update
             A   == a1
             S   == Station_collected(st1)
             E   == e1
             gain == ApplyMultiplier(A, weaponLevel) + S + ApplyMultiplier(E, weaponLevel)
         IN  /\ resources + gain <= MaxResources
             /\ resources' = resources + gain
             /\ asteroidCollected' = getCollectedResources_reset(a1)
             /\ station' = Station_drained(st1)
             /\ enemyCollected' = getCollectedResources_reset(e1)
             /\ call' = [Called("update", TRUE, gain) EXCEPT
                            !.A = A, !.S = S, !.E = E, !.dt = dt]
    /\ UNCHANGED <<currentSector, stationCost, defenseCost,
                   shipGunsLevel, stationLevel, defenseLevel, weaponLevel,
                   turrets, difficulty2>>
    /\ UNCHANGED <<victory, combatVars, squadVars, restVars>>

\* --- UI commands, between frames ---

upgradeShipGuns ==
    /\ IF ~canUpgradeShipGuns
       THEN /\ call' = Called("upgradeShipGuns", FALSE, getShipGunsCost)
            /\ UNCHANGED <<resources, shipGunsLevel, weaponLevel>>
       ELSE /\ resources' = resources - getShipGunsCost
            /\ shipGunsLevel' = shipGunsLevel + 1
            /\ weaponLevel' = Player_upgradeWeapons(weaponLevel)
            /\ call' = Called("upgradeShipGuns", TRUE, getShipGunsCost)
    /\ UNCHANGED <<currentSector, stationCost, defenseCost, stationLevel,
                   defenseLevel, station, turrets, asteroidCollected,
                   enemyCollected, difficulty2, frame>>
    /\ UNCHANGED <<victory, combatVars, squadVars, restVars>>

upgradeStation ==
    /\ IF ~canUpgradeStation
       THEN /\ call' = Called("upgradeStation", FALSE, getStationCost)
            /\ UNCHANGED <<resources, stationLevel, station, stationCost>>
       ELSE /\ resources' = resources - stationCost
            /\ stationLevel' = stationLevel + 1
            /\ station' = Station_upgrade(station)
            /\ stationCost' = (stationCost * 3) \div 2
            /\ call' = Called("upgradeStation", TRUE, getStationCost)
    /\ UNCHANGED <<currentSector, defenseCost, shipGunsLevel, defenseLevel,
                   weaponLevel, turrets, asteroidCollected, enemyCollected,
                   difficulty2, frame>>
    /\ UNCHANGED <<victory, combatVars, squadVars, restVars>>

\* mutant: a pair of turrets is mounted
Station_addTurret_Pair(ts) == Append(Append(ts, 1), 1)
\* Station.addTurret: this.turrets.push(new Turret(...)), a turret of level 1
Station_addTurret(ts) == Append(ts, 1)

\* Turret.upgrade: this.level++
Turret_upgrade(level) == level + 1

upgradeDefense ==
    /\ IF ~canUpgradeDefense
       THEN /\ call' = Called("upgradeDefense", FALSE, getDefenseCost)
            /\ UNCHANGED <<resources, defenseLevel, turrets, defenseCost>>
       ELSE /\ resources' = resources - defenseCost
            /\ defenseLevel' = defenseLevel + 1
            /\ turrets' = IF Len(turrets) < defenseLevel + 1
                          THEN Station_addTurret(turrets)
                          ELSE [i \in 1..Len(turrets) |-> Turret_upgrade(turrets[i])]
            /\ defenseCost' = (defenseCost * 3) \div 2
            /\ call' = Called("upgradeDefense", TRUE, getDefenseCost)
    /\ UNCHANGED <<currentSector, stationCost, shipGunsLevel, stationLevel,
                   weaponLevel, station, asteroidCollected, enemyCollected,
                   difficulty2, frame>>
    /\ UNCHANGED <<victory, combatVars, squadVars, restVars>>

\* hyperspace: the victory check on arrival
VictoryOnArrival(sector) ==
    sector = 4 /\ shipGunsLevel >= 10 /\ stationLevel >= 10 /\ defenseLevel >= 10

hyperspace ==
    /\ IF ~canHyperspace
       THEN /\ call' = Called("hyperspace", FALSE, 0)
            /\ UNCHANGED <<currentSector, difficulty2, victory>>
       ELSE /\ currentSector' = currentSector + 1
            /\ difficulty2' = 2 + (currentSector + 1)
            /\ victory' = IF VictoryOnArrival(currentSector + 1) THEN TRUE ELSE victory
            /\ call' = Called("hyperspace", TRUE, 0)
    /\ UNCHANGED <<resources, stationCost, defenseCost, shipGunsLevel,
                   stationLevel, defenseLevel, weaponLevel, station, turrets,
                   asteroidCollected, enemyCollected, frame>>
    /\ UNCHANGED <<combatVars, squadVars, restVars>>

\* debug key R: addResources(1000)
ProgressionManager_addResources(cap) ==
    /\ resources + 1000 <= cap
    /\ resources' = resources + 1000
    /\ call' = Called("addResources", TRUE, 1000)
    /\ UNCHANGED <<currentSector, stationCost, defenseCost, shipGunsLevel,
                   stationLevel, defenseLevel, weaponLevel, station, turrets,
                   asteroidCollected, enemyCollected, difficulty2, frame>>
    /\ UNCHANGED <<victory, combatVars, squadVars, restVars>>

addResources == ProgressionManager_addResources(MaxResources)

Next ==
    \/ GameUpdate
    \/ upgradeShipGuns
    \/ upgradeStation
    \/ upgradeDefense
    \/ hyperspace
    \/ addResources

Spec == Init /\ [][Next]_vars

\* the campaign to its end: the same commands, with the resources it takes
\* to raise every system to level 10 (the tenth station upgrade costs 3844)
addResourcesLate == ProgressionManager_addResources(MaxLateResources)

NextCampaign ==
    \/ upgradeShipGuns
    \/ upgradeStation
    \/ upgradeDefense
    \/ hyperspace
    \/ addResourcesLate

SpecCampaign == Init /\ [][NextCampaign]_vars

----------------------------------------------------------------------------
(* Progression ledger: claims *)

UpgradeOps == {"upgradeShipGuns", "upgradeStation", "upgradeDefense"}

\* the cost get*Cost() reports in ledger state l
CostBefore(op, l) ==
    IF op = "upgradeShipGuns" THEN calculateUpgradeCost(l.shipGunsLevel + 1)
    ELSE IF op = "upgradeStation" THEN l.stationCost
    ELSE l.defenseCost

\* C1: upgradeShipGuns, upgradeStation and upgradeDefense are atomic. A call
\* made with resources below the track's cost (or with ship guns at level 10)
\* returns false and changes nothing; a call that returns true has deducted
\* exactly the cost reported before it, raised only its own track by one and
\* (station, defense) replaced that track's cost by floor(cost x 1.5);
\* resources is never negative.
C1_UpgradesAtomic ==
    /\ resources >= 0
    /\ call.op \in UpgradeOps =>
        LET pre  == call.pre
            cost == CostBefore(call.op, pre)
            refused == \/ pre.resources < cost
                       \/ (call.op = "upgradeShipGuns" /\ pre.shipGunsLevel >= 10)
        IN  /\ call.cost = cost
            /\ call.ret = ~refused
            /\ ~call.ret => LedgerState = pre
            /\ call.ret =>
                /\ resources = pre.resources - cost
                /\ currentSector = pre.currentSector
                /\ shipGunsLevel = pre.shipGunsLevel
                                   + (IF call.op = "upgradeShipGuns" THEN 1 ELSE 0)
                /\ stationLevel = pre.stationLevel
                                  + (IF call.op = "upgradeStation" THEN 1 ELSE 0)
                /\ defenseLevel = pre.defenseLevel
                                  + (IF call.op = "upgradeDefense" THEN 1 ELSE 0)
                /\ stationCost = IF call.op = "upgradeStation"
                                 THEN (pre.stationCost * 3) \div 2
                                 ELSE pre.stationCost
                /\ defenseCost = IF call.op = "upgradeDefense"
                                 THEN (pre.defenseCost * 3) \div 2
                                 ELSE pre.defenseCost

\* a refused upgrade: the station upgrade was asked for with too few resources
C1_Witness ==
    /\ call.op = "upgradeStation"
    /\ ~call.ret
    /\ call.pre.resources < call.pre.stationCost
    /\ call.pre.resources > 0
    /\ call.pre.stationLevel > 0

\* the sector-dependent threshold of the mission objectives
SectorThreshold(sector) ==
    IF sector = 2 THEN 5
    ELSE IF sector = 3 THEN 7
    ELSE IF sector = 4 THEN 10
    ELSE 3

\* C2: hyperspace() succeeds only if all three levels are at least the
\* threshold of the sector being left (3, 5, 7 for sectors 1, 2, 3), and a
\* refused call changes nothing.
C2_SectorThresholdGatesHyperspace ==
    call.op = "hyperspace" =>
        /\ call.ret =>
            /\ currentSector = call.pre.currentSector + 1
            /\ call.pre.shipGunsLevel >= SectorThreshold(call.pre.currentSector)
            /\ call.pre.stationLevel  >= SectorThreshold(call.pre.currentSector)
            /\ call.pre.defenseLevel  >= SectorThreshold(call.pre.currentSector)
        /\ ~call.ret => LedgerState = call.pre

\* C3: from the fresh ledger (resources 100, ship guns 1) the first weapon
\* upgrade is free and leaves resources at 100 with both levels at 2, and the
\* second weapon upgrade then costs floor(50 x 1.4^1) = 70.
C3_FirstUpgradeFreeSecondCosts70 ==
    call.op = "upgradeShipGuns" =>
        /\ (call.pre.shipGunsLevel = 1 /\ call.pre.resources = 100) =>
              /\ call.ret
              /\ call.cost = 0
              /\ resources = 100
              /\ shipGunsLevel = 2
              /\ weaponLevel = 2
        /\ call.pre.shipGunsLevel = 2 => call.cost = ExactUpgradeCost(2)

\* floor(A x m) + S + floor(E x m), m = 1 + 0.15 x weapon level
LedgerGain(A, S, E, level) ==
    (A * (100 + 15 * level)) \div 100 + S + (E * (100 + 15 * level)) \div 100

----------------------------------------------------------------------------
(* Combat: one engagement in front of the player.                          *)
(*                                                                         *)
(* Positions lie on a line through the station (at 0) and the player, in   *)
(* half world units, so that the ranges 2.5 and 0.5 of the collision tests *)
(* are whole numbers.  An entity's position is drawn when it is spawned    *)
(* and stands for where its drift has brought it; drift during the         *)
(* engagement is not modelled.  Player and station health, fragments and   *)
(* the enemies' own fire are outside these variables.                      *)

\* bounds of the engagement
MaxCombatFrames   == 5
MaxProjectiles    == 1
MaxSquadSpawns    == 1
MaxSquadSize      == 2
MaxAsteroidSpawns == 1
MaxSplit          == 2
ProjectileStep    == 4      \* bulletSpeed x deltaTime of a frame, half units
ProjectileFrames  == 4      \* lifetime / deltaTime: frames a projectile lives

\* where spawned entities are met (half units from the station)
EnemyCells    == {110, 112, 121}
AsteroidCells == {114, 128}

\* program constants, in half units
StationPos         == 0
PlayerPos          == 100       \* Vector3(50, 0, 0)
MuzzleOffset       == 4         \* forward.scale(2)
WorldBound         == 1000      \* position.length() > 500
AsteroidHitRange   == 5         \* distance < 2.5
ProjectileRadius   == 1         \* projectileRadius = 0.5
StationCrashMargin == 10        \* getCollisionRadius() + 5
\* the ships are scouts, one of the two types spawned at difficulty 1.
\* scout: 2 x 1.5^0.3 = 2.26 units; on the half-unit grid d < r + 2.26 and
\* d < r + 2.5 hold for the same distances d whenever r is a multiple of 0.5
ScoutCollisionRadius == 5
ScoutHealth          == 20      \* 20 x difficulty, difficulty 1

Abs(x) == IF x < 0 THEN -x ELSE x

\* WeaponSystem.calculateDamage
calculateDamage(level) ==
    CASE level = 1 -> 4   [] level = 2 -> 3   [] level = 3 -> 15
      [] level = 4 -> 6   [] level = 5 -> 8   [] level = 6 -> 10
      [] level = 7 -> 12  [] level = 8 -> 4   [] level = 9 -> 18
      [] level = 10 -> 35 [] OTHER -> 0

\* WeaponSystem.calculateSplashRadius, in half units
calculateSplashRadius(level) ==
    CASE level = 3 -> 16  [] level = 4 -> 8   [] level = 7 -> 30
      [] level = 9 -> 44  [] level = 10 -> 60 [] OTHER -> 0

\* WeaponSystem.calculatePenetration
calculatePenetration(level) ==
    CASE level = 5 -> 3   [] level = 6 -> 5   [] level = 8 -> 2
      [] level = 9 -> 4   [] level = 10 -> 8  [] OTHER -> 0

\* a projectile's penetrationCount when it is created
InitialPenetrationCount == 0

\* Player.fireSingleShot: new Projectile(spawnPosition, ..., damage, ...,
\* splashRadius, penetration); hits and deadHits count, for the record, the
\* direct hits it registered and those it registered with isAlive = false
NewProjectile(level) ==
    [pos |-> PlayerPos + MuzzleOffset,
     damage |-> calculateDamage(level),
     splashRadius |-> calculateSplashRadius(level),
     penetration |-> calculatePenetration(level),
     penetrationCount |-> InitialPenetrationCount,
     isAlive |-> TRUE, age |-> 0, hits |-> 0, deadHits |-> 0]

\* Projectile.update
Projectile_update(p) ==
    LET aged == [p EXCEPT !.age = @ + 1]
    IN  IF aged.age >= ProjectileFrames
        THEN [aged EXCEPT !.isAlive = FALSE]
        ELSE LET moved == [aged EXCEPT !.pos = @ + ProjectileStep]
             IN  IF Abs(moved.pos) > WorldBound
                 THEN [moved EXCEPT !.isAlive = FALSE]
                 ELSE moved

\* the penetration bookkeeping of checkProjectileCollisions
Projectile_onHit(p) ==
    LET q == IF p.penetration > 0
             THEN LET c == p.penetrationCount + 1
                  IN  [p EXCEPT !.penetrationCount = c,
                                !.isAlive = IF c > p.penetration THEN FALSE ELSE @]
             ELSE [p EXCEPT !.isAlive = FALSE]
    IN  [q EXCEPT !.hits = @ + 1,
                  !.deadHits = @ + (IF p.isAlive THEN 0 ELSE 1)]

\* Enemy.takeDamage / Asteroid.takeDamage on the health and the flags
Enemy_takeDamage(e, amount) ==
    LET h == e.health - amount
    IN  [e EXCEPT !.health = h, !.isAlive = IF h <= 0 THEN FALSE ELSE @]

Asteroid_takeDamage(a, amount) ==
    LET h == a.health - amount
    IN  IF h <= 0
        THEN [a EXCEPT !.health = h, !.isAlive = FALSE,
                       !.shouldSplit = IF a.sizeType \in {"large", "medium"}
                                       THEN TRUE ELSE @]
        ELSE [a EXCEPT !.health = h]

\* Asteroid constructor: health by size type; getCollisionRadius = 2 x size
\* with size 3.0 (large), 2.0 (medium), 1.0 (small), in half units
NewAsteroid(sizeType, pos) ==
    [pos |-> pos, sizeType |-> sizeType,
     health |-> IF sizeType = "large" THEN 30
                ELSE IF sizeType = "medium" THEN 15 ELSE 10,
     isAlive |-> TRUE, shouldSplit |-> FALSE,
     byMissile |-> FALSE]       \* a missile has destroyed it (with a blue burst)

Asteroid_getCollisionRadius(a) ==
    IF a.sizeType = "large" THEN 12 ELSE IF a.sizeType = "medium" THEN 8 ELSE 4

\* floor(size x speed x 2) at a drift speed of 2.5
Asteroid_getCollisionDamage(a) ==
    IF a.sizeType = "large" THEN 15 ELSE IF a.sizeType = "medium" THEN 10 ELSE 5

Enemy_getCollisionRadius(e) == ScoutCollisionRadius

\* mutant: the splash range includes its boundary
SplashInRange_Inclusive(distance, radius, collisionRadius) ==
    distance <= radius + collisionRadius
\* distance < radius + collisionRadius
SplashInRange(distance, radius, collisionRadius) ==
    distance < radius + collisionRadius

RemoveAt(seq, i) == [k \in 1..(Len(seq) - 1) |-> IF k < i THEN seq[k] ELSE seq[k + 1]]

\* what a splash pass sees of its targets
EnemyView(es) ==
    [k \in 1..Len(es) |-> [pos |-> es[k].pos, isAlive |-> es[k].isAlive,
                           collisionRadius |-> Enemy_getCollisionRadius(es[k])]]
AsteroidView(as) ==
    [k \in 1..Len(as) |-> [pos |-> as[k].pos, isAlive |-> as[k].isAlive,
                           collisionRadius |-> Asteroid_getCollisionRadius(as[k])]]

\* one direct hit, as the passes record it: the target's index and health
\* before the hit and after the hit was resolved, the projectile's values,
\* the targets as the splash pass found them, the indices it damaged in
\* order, and the number of splash passes run
HitRecord(pass, i, before, after, p, view, sp) ==
    [pass |-> pass, target |-> i, before |-> before, after |-> after,
     damage |-> p.damage, splashRadius |-> p.splashRadius, impact |-> p.pos,
     projectileWasAlive |-> p.isAlive,
     view |-> view, splashed |-> sp.splashed, passes |-> sp.passes,
     splashKilled |-> {k \in 1..Len(view) : view[k].isAlive /\ ~sp.targets[k].isAlive}]

NoSplash(targets) == [targets |-> targets, splashed |-> << >>, passes |-> 0]

\* ---- EnemyManager ----

\* applySplashDamage: for (const enemy of this.enemies), from index k
RECURSIVE EnemySplashFrom(_, _, _, _, _, _)
EnemySplashFrom(es, k, splashed, pos, radius, damage) ==
    IF k > Len(es) THEN [targets |-> es, splashed |-> splashed, passes |-> 1]
    ELSE IF ~es[k].isAlive
         THEN EnemySplashFrom(es, k + 1, splashed, pos, radius, damage)
    ELSE IF SplashInRange(Abs(pos - es[k].pos), radius, Enemy_getCollisionRadius(es[k]))
         THEN EnemySplashFrom([es EXCEPT ![k] = Enemy_takeDamage(es[k], damage)],
                              k + 1, Append(splashed, k), pos, radius, damage)
    ELSE EnemySplashFrom(es, k + 1, splashed, pos, radius, damage)

\* mutant: an enemy killed by the splash pass sets off a pass of its own
EnemyManager_applySplashDamage_Chained(es, pos, radius, damage) ==
    LET first  == EnemySplashFrom(es, 1, << >>, pos, radius, damage)
        killed == {k \in 1..Len(es) : es[k].isAlive /\ ~first.targets[k].isAlive}
    IN  IF killed = {} THEN first
        ELSE LET k0 == CHOOSE k \in killed : \A m \in killed : k <= m
                 second == EnemySplashFrom(first.targets, 1, first.splashed,
                                           es[k0].pos, radius, damage)
             IN  [second EXCEPT !.passes = 2]
EnemyManager_applySplashDamage(es, pos, radius, damage) ==
    EnemySplashFrom(es, 1, << >>, pos, radius, damage)

\* checkProjectileCollisions(enemy i, player.projectiles), from index j down
RECURSIVE EnemyVsProjectiles(_, _, _)
EnemyVsProjectiles(w, i, j) ==
    IF j = 0 THEN w
    ELSE
      LET p == w.projectiles[j]
          e == w.enemies[i]
          distance == Abs(e.pos - p.pos)
          collisionThreshold == Enemy_getCollisionRadius(e) + ProjectileRadius
      IN  IF distance < collisionThreshold
          THEN LET es1 == [w.enemies EXCEPT ![i] = Enemy_takeDamage(e, p.damage)]
                   sp  == IF p.splashRadius > 0
                          THEN EnemyManager_applySplashDamage(es1, p.pos,
                                                  p.splashRadius, p.damage)
                          ELSE NoSplash(es1)
                   rec == HitRecord("enemies", i, e.health, sp.targets[i].health,
                                    p, EnemyView(es1), sp)
               IN  EnemyVsProjectiles(
                       [w EXCEPT !.enemies = sp.targets,
                                 !.projectiles = [@ EXCEPT ![j] = Projectile_onHit(p)],
                                 !.log = Append(@, rec)],
                       i, j - 1)
          ELSE EnemyVsProjectiles(w, i, j - 1)

\* ---- Squad: roster and formation ----
\* formation offsets are <<x, y, z>> in thousandths of a unit

\* 20 x (cos, sin) of 2 pi i / squadSize, rounded to thousandths
CircleOffsets ==
    [n \in 7..9 |->
       CASE n = 7 -> << <<20000, 0>>, <<12470, 15637>>, <<-4450, 19499>>,
                        <<-18019, 8678>>, <<-18019, -8678>>, <<-4450, -19499>>,
                        <<12470, -15637>> >>
         [] n = 8 -> << <<20000, 0>>, <<14142, 14142>>, <<0, 20000>>,
                        <<-14142, 14142>>, <<-20000, 0>>, <<-14142, -14142>>,
                        <<0, -20000>>, <<14142, -14142>> >>
         [] OTHER -> << <<20000, 0>>, <<15321, 12856>>, <<3473, 19696>>,
                        <<-10000, 17321>>, <<-18794, 6840>>, <<-18794, -6840>>,
                        <<-10000, -17321>>, <<3473, -19696>>, <<15321, -12856>> >>]

\* V-formation: for (let i = 0; i < squadSize; i++), i counted from 0
VFormation(ids) ==
    [k \in 1..Len(ids) |->
        LET i    == k - 1
            side == IF i % 2 = 0 THEN 1 ELSE -1
            row  == i \div 2
        IN  [offset |-> <<side * row * 8000, 0, 0 - row * 12000>>,
             enemy |-> ids[k]]]

\* one row of the wedge: for (let col = 0; col < shipsInRow; col++)
WedgeRow(ids, row, enemyIndex, shipsInRow) ==
    [c \in 1..shipsInRow |->
        [offset |-> <<10000 * (c - 1) - 5000 * (shipsInRow - 1), 0, 0 - row * 15000>>,
         enemy |-> ids[enemyIndex + c]]]

\* wedge: for (let row = 0; row < rows; row++), enemyIndex counted from 0
RECURSIVE WedgeFrom(_, _, _, _)
WedgeFrom(ids, row, enemyIndex, positions) ==
    LET squadSize == Len(ids)
        rows == (squadSize + 1) \div 2
        shipsInRow == IF 2 + row < squadSize - enemyIndex
                      THEN 2 + row ELSE squadSize - enemyIndex
    IN  IF row >= rows THEN positions
        ELSE WedgeFrom(ids, row + 1, enemyIndex + shipsInRow,
                       positions \o WedgeRow(ids, row, enemyIndex, shipsInRow))

\* spread formation (circle)
CircleFormation(ids) ==
    [k \in 1..Len(ids) |->
        [offset |-> <<CircleOffsets[Len(ids)][k][1], 0, CircleOffsets[Len(ids)][k][2]>>,
         enemy |-> ids[k]]]

\* mutant: the wedge begins at three ships
FormationShape_WedgeFromThree(squadSize) ==
    IF squadSize <= 2 THEN "V" ELSE IF squadSize <= 6 THEN "wedge" ELSE "circle"
\* if (squadSize <= 3) ... else if (squadSize <= 6) ... else
FormationShape(squadSize) ==
    IF squadSize <= 3 THEN "V" ELSE IF squadSize <= 6 THEN "wedge" ELSE "circle"

\* Squad.updateFormation
Squad_updateFormation(s) ==
    LET squadSize == Len(s.enemies)
        shape == FormationShape(squadSize)
    IN  [s EXCEPT !.formationPositions =
            IF squadSize = 0 THEN << >>
            ELSE CASE shape = "V"     -> VFormation(s.enemies)
                   [] shape = "wedge" -> WedgeFrom(s.enemies, 0, 0, << >>)
                   [] OTHER           -> CircleFormation(s.enemies)]

\* this.enemies.indexOf(enemy), counted from 1; 0 when absent
IndexOf(seq, x) ==
    IF \E k \in 1..Len(seq) : seq[k] = x
    THEN CHOOSE k \in 1..Len(seq) :
             seq[k] = x /\ \A m \in 1..(k - 1) : seq[m] # x
    ELSE 0

\* Squad.addEnemy, the squad's side (the caller sets enemy.squad)
Squad_addEnemy(s, id) ==
    Squad_updateFormation([s EXCEPT !.enemies = Append(@, id)])

\* mutant: the enemy stays on the roster
Squad_removeEnemy_KeepsMember(s, id) == s
\* mutant: the roster shrinks and the formation is left as it was
Squad_removeEnemy_StaleFormation(s, id) ==
    [s EXCEPT !.enemies = SelectSeq(@, LAMBDA x : x # id)]
\* Squad.removeEnemy, on the squad the enemy refers to (the caller clears
\* enemy.squad)
Squad_removeEnemy(s, id) ==
    LET index == IndexOf(s.enemies, id)
    IN  IF index > 0
        THEN Squad_updateFormation([s EXCEPT !.enemies = RemoveAt(@, index)])
        ELSE s

Squad_isEmpty(s) == Len(s.enemies) = 0

\* the squads loop of update: squad.update, then remove the squad if empty
UpdateSquads(sqs) == SelectSeq(sqs, LAMBDA s : ~Squad_isEmpty(s))

\* the enemies loop of update, from index i down
RECURSIVE UpdateEnemies(_, _)
UpdateEnemies(w, i) ==
    IF i = 0 THEN w
    ELSE
      LET w1 == EnemyVsProjectiles(w, i, Len(w.projectiles))
          e  == w1.enemies[i]
      IN  IF ~e.isAlive
          THEN UpdateEnemies(
                   [w1 EXCEPT !.squads =
                                 [k \in 1..Len(@) |->
                                     IF e.squad # 0 /\ @[k].id = e.squad
                                     THEN Squad_removeEnemy(@[k], e.id) ELSE @[k]],
                              !.enemies = RemoveAt(@, i)],
                   i - 1)
          ELSE UpdateEnemies(w1, i - 1)

\* spawnSquad: a new squad and its ships, each with squad set by addEnemy
RECURSIVE AddEnemies(_, _, _)
AddEnemies(s, id, n) ==
    IF n = 0 THEN s
    ELSE Squad_addEnemy(AddEnemies(s, id, n - 1), 10 * id + n)

NewSquad(id, cells) ==
    AddEnemies([id |-> id, enemies |-> << >>, formationPositions |-> << >>],
               id, Len(cells))
NewSquadEnemies(id, cells) ==
    [k \in 1..Len(cells) |->
        [id |-> 10 * id + k, pos |-> cells[k], health |-> ScoutHealth,
         isAlive |-> TRUE, squad |-> id]]

\* ---- AsteroidManager ----

\* applySplashDamage: for (const asteroid of this.asteroids), from index k
RECURSIVE AsteroidSplashFrom(_, _, _, _, _, _)
AsteroidSplashFrom(as, k, splashed, pos, radius, damage) ==
    IF k > Len(as) THEN [targets |-> as, splashed |-> splashed, passes |-> 1]
    ELSE IF ~as[k].isAlive
         THEN AsteroidSplashFrom(as, k + 1, splashed, pos, radius, damage)
    ELSE IF SplashInRange(Abs(pos - as[k].pos), radius, Asteroid_getCollisionRadius(as[k]))
         THEN AsteroidSplashFrom([as EXCEPT ![k] = Asteroid_takeDamage(as[k], damage)],
                                 k + 1, Append(splashed, k), pos, radius, damage)
    ELSE AsteroidSplashFrom(as, k + 1, splashed, pos, radius, damage)

AsteroidManager_applySplashDamage(as, pos, radius, damage) ==
    AsteroidSplashFrom(as, 1, << >>, pos, radius, damage)

\* checkProjectileCollisions(asteroid i, player.projectiles), from index j down
RECURSIVE AsteroidVsProjectiles(_, _, _)
AsteroidVsProjectiles(w, i, j) ==
    IF j = 0 THEN w
    ELSE
      LET p == w.projectiles[j]
          a == w.asteroids[i]
          distance == Abs(a.pos - p.pos)
      IN  IF distance < AsteroidHitRange
          THEN LET as1 == [w.asteroids EXCEPT ![i] = Asteroid_takeDamage(a, p.damage)]
                   sp  == IF p.splashRadius > 0
                          THEN AsteroidManager_applySplashDamage(as1, p.pos,
                                                  p.splashRadius, p.damage)
                          ELSE NoSplash(as1)
                   rec == HitRecord("asteroids", i, a.health, sp.targets[i].health,
                                    p, AsteroidView(as1), sp)
               IN  AsteroidVsProjectiles(
                       [w EXCEPT !.asteroids = sp.targets,
                                 !.projectiles = [@ EXCEPT ![j] = Projectile_onHit(p)],
                                 !.log = Append(@, rec)],
                       i, j - 1)
          ELSE AsteroidVsProjectiles(w, i, j - 1)

\* the enemies an asteroid at pos with the given radius touches, in list order
TouchedEnemies(es, pos, radius) ==
    {k \in 1..Len(es) : Abs(pos - es[k].pos) < radius + Enemy_getCollisionRadius(es[k])}

\* Asteroid.splitIntoSmaller: n pieces of the next smaller size around pos
SplitOffset == 2            \* (Math.random() - 0.5) * 2, at its extreme
SplitPieces(a, n) ==
    LET newSizeType == IF a.sizeType = "large" THEN "medium" ELSE "small"
    IN  [k \in 1..n |->
            NewAsteroid(newSizeType,
                        a.pos + (IF k = 1 THEN -SplitOffset
                                 ELSE IF k = 2 THEN SplitOffset ELSE 0))]

\* what became of an asteroid that left the list in this update: why it
\* left, its health when the update began and when it left, the direct
\* hits registered on it in this update, the pieces it split into and the
\* fragment burst it left
Removal(cause, a, before, hits, pieces, burst) ==
    [cause |-> cause, pos |-> a.pos, sizeType |-> a.sizeType,
     before |-> before, health |-> a.health,
     hits |-> hits, pieces |-> pieces, burst |-> burst,
     byMissile |-> a.byMissile]

\* the health asteroid i had when this update's loop began: the loop runs
\* from the last index down and removes only at its own index, so index i
\* still holds the asteroid that was there
HealthAtStart(w, i) == w.start[i].health

\* a crashing asteroid leaves the loop at once (continue): the work goes on
\* as it was, without the projectile test
BeforeCrash_ProjectilesFirst(w, i) == AsteroidVsProjectiles(w, i, Len(w.projectiles))

BeforeCrash(w, i) == w

\* the crash branches: crashIntoFragments, dispose, splice, continue
Crash(w, i, cause) ==
    LET w1 == BeforeCrash(w, i)
        a  == w1.asteroids[i]
    IN  [w1 EXCEPT !.asteroids = RemoveAt(@, i),
                   !.removed = Append(@, Removal(cause, a, HealthAtStart(w, i),
                                                 Len(w1.log) - Len(w.log), 0, "crash"))]

\* the asteroids loop of update, from index i down; n is this frame's split count
RECURSIVE UpdateAsteroids(_, _, _)
UpdateAsteroids(w, i, n) ==
    IF i = 0 THEN w
    ELSE
      LET a == w.asteroids[i]
          r == Asteroid_getCollisionRadius(a)
          touched == TouchedEnemies(w.enemies, a.pos, r)
      IN  IF Abs(a.pos - PlayerPos) < r
          THEN \* crashes into the player
               UpdateAsteroids(Crash(w, i, "player"), i - 1, n)
          ELSE IF Abs(a.pos - StationPos) < r + StationCrashMargin
          THEN \* crashes into the station
               UpdateAsteroids(Crash(w, i, "station"), i - 1, n)
          ELSE IF touched # {}
          THEN \* crashes into the first enemy it touches
               LET k == CHOOSE k \in touched : \A m \in touched : k <= m
               IN  UpdateAsteroids(
                       [Crash(w, i, "enemy") EXCEPT !.enemies[k] =
                            Enemy_takeDamage(@, Asteroid_getCollisionDamage(a))],
                       i - 1, n)
          ELSE
            LET w1 == AsteroidVsProjectiles(w, i, Len(w.projectiles))
                a1 == w1.asteroids[i]
                hits == Len(w1.log) - Len(w.log)
            IN  IF ~a1.isAlive
                THEN UpdateAsteroids(
                         [w1 EXCEPT !.asteroids =
                                 RemoveAt(IF a1.shouldSplit
                                          THEN @ \o SplitPieces(a1, n) ELSE @, i),
                                    !.removed = Append(@,
                                        IF a1.shouldSplit
                                        THEN Removal("destroyed", a1, HealthAtStart(w, i),
                                                     hits, n, "none")
                                        ELSE Removal("destroyed", a1, HealthAtStart(w, i),
                                                     hits, 0, "clean"))],
                         i - 1, n)
                ELSE UpdateAsteroids(w1, i - 1, n)

----------------------------------------------------------------------------
(* The frame of the engagement: Game.update calls player.update,           *)
(* asteroidManager.update and enemyManager.update in this order.           *)

Work == [enemies |-> enemies, asteroids |-> asteroids,
         projectiles |-> projectiles, squads |-> squads, log |-> << >>,
         start |-> asteroids, removed |-> << >>]

ledgerRest == <<resources, currentSector, stationCost, defenseCost,
                shipGunsLevel, stationLevel, defenseLevel,
                station, turrets, asteroidCollected, enemyCollected,
                difficulty2, frame, call, victory>>

\* the weapon the engagement is fought with: Player.upgradeWeapons, before
\* the first frame
PlayerUpgradeWeapons ==
    /\ cframe = 0
    /\ weaponLevel' = Player_upgradeWeapons(weaponLevel)
    /\ UNCHANGED <<ledgerRest, combatVars, squadVars, restVars>>

\* Player.update: fire if the trigger is held and the cooldown has run out,
\* then update every projectile and drop the dead ones
PlayerUpdate ==
    /\ phase = "player"
    /\ cframe < MaxCombatFrames
    /\ \E shoot \in BOOLEAN :
         LET fired == IF shoot /\ weaponLevel > 0 /\ Len(projectiles) < MaxProjectiles
                      THEN Append(projectiles, NewProjectile(weaponLevel))
                      ELSE projectiles
             updated == [j \in 1..Len(fired) |-> Projectile_update(fired[j])]
         IN  projectiles' = SelectSeq(updated, LAMBDA p : p.isAlive)
    /\ phase' = "asteroids"
    /\ cframe' = cframe + 1
    /\ hitLog' = << >>
    /\ asteroidLog' = << >>
    /\ UNCHANGED <<ledgerVars, squadVars, restVars, enemies, squads, asteroids,
                   squadsSpawned, asteroidsSpawned>>

\* AsteroidManager.update
AsteroidManagerUpdate ==
    /\ phase = "asteroids"
    /\ \E spawn \in BOOLEAN, sizeType \in {"large", "medium"},
          cell \in AsteroidCells, n \in 2..MaxSplit :
         LET doSpawn == spawn /\ asteroidsSpawned < MaxAsteroidSpawns
             w0 == IF doSpawn
                   THEN [Work EXCEPT !.asteroids = Append(@, NewAsteroid(sizeType, cell)),
                                     !.start = Append(@, NewAsteroid(sizeType, cell))]
                   ELSE Work
             w1 == UpdateAsteroids(w0, Len(w0.asteroids), n)
         IN  /\ asteroidsSpawned' = asteroidsSpawned + (IF doSpawn THEN 1 ELSE 0)
             /\ asteroids' = w1.asteroids
             /\ enemies' = w1.enemies
             /\ projectiles' = w1.projectiles
             /\ hitLog' = w1.log
             /\ asteroidLog' = w1.removed
    /\ phase' = "enemies"
    /\ UNCHANGED <<ledgerVars, squadVars, restVars, squads, cframe, squadsSpawned>>

\* EnemyManager.update
EnemyManagerUpdate ==
    /\ phase = "enemies"
    /\ \E spawn \in BOOLEAN, size \in 2..MaxSquadSize :
       \E cells \in [1..size -> EnemyCells] :
         LET doSpawn == spawn /\ squadsSpawned < MaxSquadSpawns
             id == squadsSpawned + 1
             w0 == IF doSpawn
                   THEN [Work EXCEPT !.squads = Append(@, NewSquad(id, cells)),
                                     !.enemies = @ \o NewSquadEnemies(id, cells)]
                   ELSE Work
             w1 == [w0 EXCEPT !.squads = UpdateSquads(@)]
             w2 == UpdateEnemies(w1, Len(w1.enemies))
         IN  /\ squadsSpawned' = squadsSpawned + (IF doSpawn THEN 1 ELSE 0)
             /\ squads' = w2.squads
             /\ enemies' = w2.enemies
             /\ projectiles' = w2.projectiles
             /\ hitLog' = w2.log
    /\ phase' = "player"
    /\ UNCHANGED <<ledgerVars, squadVars, restVars, asteroids, cframe, asteroidsSpawned,
                   asteroidLog>>

NextCombat ==
    \/ PlayerUpgradeWeapons
    \/ PlayerUpdate
    \/ AsteroidManagerUpdate
    \/ EnemyManagerUpdate

SpecCombat == Init /\ [][NextCombat]_vars

----------------------------------------------------------------------------
(* Squad: the tactical state machine of one squad, from spawnSquad on.     *)
(*                                                                         *)
(* Time is counted in ticks of 1/TicksPerSecond s and positions, on the    *)
(* line through the station (at 0) and the player, in 1/TicksPerSecond     *)
(* units, so that speed x deltaTime is a whole number.                     *)

MaxSquadCycles == 1

\* Squad fields and the constants of its update methods
engageDuration  == 8
retreatDuration == 3
regroupDuration == 4
EngageDistance  == 60
ApproachSpeed   == 25
RetreatSpeed    == 35
RallyDistance   == 100
RallyTolerance  == 5
SquadSpawnDistance == 150
PlayerDistance  == 50          \* the player is at Vector3(50, 0, 0)

Sign(x) == IF x < 0 THEN -1 ELSE IF x > 0 THEN 1 ELSE 0

TargetPos(targetType) ==
    IF targetType = "player" THEN PlayerDistance * TicksPerSecond ELSE 0

\* mutant: the timer expires on reaching the duration
TimerExpired_AtDuration(stateTimer, duration) ==
    stateTimer >= duration * TicksPerSecond
\* this.stateTimer > duration
TimerExpired(stateTimer, duration) ==
    stateTimer > duration * TicksPerSecond

\* mutant: the squad engages from 70 units
Squad_updateApproaching_EngagesEarly(s, targetPos, dt) ==
    LET direction == targetPos - s.formationCenter
        distance  == Abs(direction)
    IN  IF distance > (EngageDistance + 10) * TicksPerSecond
        THEN [s EXCEPT !.formationCenter = @ + Sign(direction) * dt * ApproachSpeed]
        ELSE [s EXCEPT !.state = "engaging", !.stateTimer = 0]
\* Squad.updateApproaching
Squad_updateApproaching(s, targetPos, dt) ==
    LET direction == targetPos - s.formationCenter
        distance  == Abs(direction)
    IN  IF distance > EngageDistance * TicksPerSecond
        THEN [s EXCEPT !.formationCenter = @ + Sign(direction) * dt * ApproachSpeed]
        ELSE [s EXCEPT !.state = "engaging", !.stateTimer = 0]

Squad_updateEngaging(s, targetPos, dt) ==
    IF TimerExpired(s.stateTimer, engageDuration)
    THEN [s EXCEPT !.state = "retreating", !.stateTimer = 0,
                   !.rallyPoint = targetPos
                       + Sign(s.formationCenter - targetPos)
                         * RallyDistance * TicksPerSecond]
    ELSE s

Squad_updateRetreating(s, targetPos, dt) ==
    LET direction == s.rallyPoint - s.formationCenter
        distance  == Abs(direction)
        moved == IF distance > RallyTolerance * TicksPerSecond
                 THEN [s EXCEPT !.formationCenter = @ + Sign(direction) * dt * RetreatSpeed]
                 ELSE s
    IN  IF TimerExpired(moved.stateTimer, retreatDuration)
        THEN [moved EXCEPT !.state = "regrouping", !.stateTimer = 0]
        ELSE moved

Squad_updateRegrouping(s, dt) ==
    IF TimerExpired(s.stateTimer, regroupDuration)
    THEN [s EXCEPT !.state = "approaching", !.stateTimer = 0]
    ELSE s

\* the state machine of Squad.update
Squad_step(s, dt) ==
    LET timed == [s EXCEPT !.stateTimer = @ + dt]
        targetPos == TargetPos(s.targetType)
        stepped ==
            CASE s.state = "approaching" -> Squad_updateApproaching(timed, targetPos, dt)
              [] s.state = "engaging"    -> Squad_updateEngaging(timed, targetPos, dt)
              [] s.state = "retreating"  -> Squad_updateRetreating(timed, targetPos, dt)
              [] OTHER                   -> Squad_updateRegrouping(timed, dt)
    IN  stepped

\* mutant: the target is not switched during an update that starts in engaging
Squad_update_NoSwitchWhileEngaging(s, dt, flip) ==
    IF s.members = 0 THEN s
    ELSE IF flip = "keep" \/ s.state = "engaging" THEN Squad_step(s, dt)
    ELSE [Squad_step(s, dt) EXCEPT !.targetType = flip]
\* Squad.update: nothing for an empty squad; flip is the outcome of the
\* random target switch ("keep" when Math.random() < 0.002 fails)
Squad_update(s, dt, flip) ==
    IF s.members = 0 THEN s
    ELSE IF flip = "keep" THEN Squad_step(s, dt)
    ELSE [Squad_step(s, dt) EXCEPT !.targetType = flip]

ledgerAndCombat == <<ledgerVars, combatVars>>

\* EnemyManager.spawnSquad: new Squad(spawnCenter) and its ships
SquadSpawn ==
    /\ ~sq.spawned
    /\ \E side \in {-1, 1}, size \in 2..MaxSquadSize :
         LET spawnCenter == side * SquadSpawnDistance * TicksPerSecond
         IN  sq' = [spawned |-> TRUE, inRegistry |-> TRUE, members |-> size,
                    state |-> "approaching", targetType |-> "player",
                    stateTimer |-> 0, formationCenter |-> spawnCenter,
                    rallyPoint |-> spawnCenter]
    /\ UNCHANGED <<ledgerAndCombat, restVars, sqPrev, sqElapsed, sqCycles>>

\* the squads loop of EnemyManager.update: squad.update, then removal of
\* the squad if it is empty
SquadUpdate ==
    /\ sq.inRegistry
    /\ sqCycles < MaxSquadCycles
    /\ \E dt \in 0..MaxDt, flip \in {"keep", "player", "station"} :
         LET s1 == Squad_update(sq, dt, flip)
         IN  /\ sqPrev' = [state |-> sq.state, dt |-> dt,
                           distance |-> Abs(TargetPos(sq.targetType)
                                            - sq.formationCenter),
                           stateTimer |-> sq.stateTimer,
                           targetType |-> sq.targetType,
                           flip |-> flip, empty |-> sq.members = 0]
             /\ IF sq.members = 0
                THEN /\ sq' = [s1 EXCEPT !.inRegistry = FALSE]
                     /\ UNCHANGED <<sqElapsed, sqCycles>>
                ELSE
                  /\ sq' = s1
                  /\ sqElapsed' = IF s1.state = "engaging" /\ sq.state = "approaching"
                                  THEN 0
                                  ELSE IF sq.state = "approaching" THEN sqElapsed
                                  ELSE sqElapsed + dt
                  /\ sqCycles' = IF s1.state = "approaching" /\ sq.state = "regrouping"
                                 THEN sqCycles + 1 ELSE sqCycles
    /\ UNCHANGED <<ledgerAndCombat, restVars>>

\* the enemies loop of EnemyManager.update removes a dead member: Squad.removeEnemy
SquadMemberKilled ==
    /\ sq.inRegistry
    /\ sq.members > 0
    /\ sq' = [sq EXCEPT !.members = @ - 1]
    /\ UNCHANGED <<ledgerAndCombat, restVars, sqPrev, sqElapsed, sqCycles>>

NextSquad ==
    \/ SquadSpawn
    \/ SquadUpdate
    \/ SquadMemberKilled

SpecSquad == Init /\ [][NextSquad]_vars

----------------------------------------------------------------------------
(* Combat: claims *)

\* C5: a projectile with penetration P, over its whole life and both
\* collision passes of every frame, survives its first P registered hits, is
\* dead after hit P + 1, and registers no hit once it is dead: it applies
\* direct damage at most P + 1 times.
C5_AtMostPenetrationPlusOneHits ==
    \A j \in 1..Len(projectiles) :
        LET p == projectiles[j]
        IN  /\ p.hits <= p.penetration + 1
            /\ p.deadHits = 0
            /\ p.isAlive <=> p.hits <= p.penetration

\* C6: the target of a direct hit by a splashing projectile loses exactly
\* damage by that hit: the splash pass of the hit leaves it out.
C6_SplashSparesTheDirectTarget ==
    \A n \in 1..Len(hitLog) :
        LET rec == hitLog[n]
        IN  rec.splashRadius > 0 =>
              /\ rec.after = rec.before - rec.damage
              /\ \A m \in 1..Len(rec.splashed) : rec.splashed[m] # rec.target

\* C7: resolving one direct hit runs the splash pass once if the projectile
\* splashes and not at all otherwise, the pass damages no entity twice, and
\* an entity it damages or kills starts no further pass.
C7_SplashNeverChains ==
    \A n \in 1..Len(hitLog) :
        LET rec == hitLog[n]
        IN  /\ rec.passes = (IF rec.splashRadius > 0 THEN 1 ELSE 0)
            /\ \A a, b \in 1..Len(rec.splashed) :
                   rec.splashed[a] = rec.splashed[b] => a = b

\* a splash pass has killed an enemy other than the one hit directly
C7_Witness ==
    \E n \in 1..Len(hitLog) :
        /\ hitLog[n].splashRadius > 0
        /\ hitLog[n].passes = 1
        /\ \E k \in hitLog[n].splashKilled : k # hitLog[n].target

\* C8: the splash pass of a direct hit damages exactly the targets of its
\* category that are alive and whose centre is at a distance
\* d < splashRadius + collisionRadius from the impact (strict); so with
\* splashRadius 5 and collisionRadius 3 a target at 7 is damaged and one at
\* 9 is not; a target with isAlive = false is never damaged.
C8_SplashDamagesExactlyLiveTargetsInRange ==
    /\ \A n \in 1..Len(hitLog) :
         LET rec == hitLog[n]
             damaged == {rec.splashed[m] : m \in 1..Len(rec.splashed)}
         IN  damaged =
               IF rec.splashRadius > 0
               THEN {k \in 1..Len(rec.view) :
                        /\ rec.view[k].isAlive
                        /\ Abs(rec.view[k].pos - rec.impact)
                             < rec.splashRadius + rec.view[k].collisionRadius}
               ELSE {}
    /\ SplashInRange(2 * 7, 2 * 5, 2 * 3)
    /\ ~SplashInRange(2 * 9, 2 * 5, 2 * 3)

\* a splash pass found a live enemy, not the one hit, exactly at
\* splashRadius + collisionRadius from the impact and left it undamaged
C8_Witness ==
    \E n \in 1..Len(hitLog) :
        LET rec == hitLog[n]
        IN  /\ rec.splashRadius > 0
            /\ \E k \in 1..Len(rec.view) :
                  /\ k # rec.target
                  /\ rec.view[k].isAlive
                  /\ Abs(rec.view[k].pos - rec.impact)
                       = rec.splashRadius + rec.view[k].collisionRadius
                  /\ \A m \in 1..Len(rec.splashed) : rec.splashed[m] # k

\* C10: at the end of every EnemyManager.update the registry holds no squad
\* with an empty roster, the squad whose last member died in that update
\* included.
C10_NoEmptySquadAfterUpdate ==
    (phase = "player" /\ cframe > 0) =>
        \A k \in 1..Len(squads) : Len(squads[k].enemies) > 0

----------------------------------------------------------------------------
(* Squad: claims *)

Seconds(n) == n * TicksPerSecond

\* C9 as stated: a squad in approaching whose centre is within 60 units of
\* its target is in engaging after its update, and, counting simulated time
\* from there, it is in retreating at 8 s, in regrouping at 11 s and in
\* approaching again at 15 s.
C9_CycleTimedAt8And11And15 ==
    (sq.inRegistry /\ sq.members > 0) =>
        /\ (sqPrev.state = "approaching"
              /\ sqPrev.distance <= EngageDistance * TicksPerSecond)
             => sq.state = "engaging"
        /\ (sq.state # "approaching" \/ sqCycles > 0) =>
             /\ sqElapsed = Seconds(8)  => sq.state = "retreating"
             /\ sqElapsed = Seconds(11) => sq.state = "regrouping"
             /\ sqElapsed = Seconds(15) => sq.state = "approaching"

\* C9 amended: the cycle is closed and each leg ends at the first update
\* that finds more than its duration on the timer. A squad in approaching
\* turns to engaging at the update that finds its centre within 60 units
\* of the target, and at no other; it is still engaging 8 s later and
\* turns to retreating more than 8 s and at most 8 s + one deltaTime after
\* engaging began, to regrouping more than 3 s after that and to
\* approaching more than 4 s after that: it is approaching again more than
\* 15 s and at most 15 s + 3 deltaTime (15.3 s) after engaging began.
C9_CycleClosedAndTimedWithinOneUpdate ==
    sq.inRegistry =>
        /\ sqPrev.state = "approaching" =>
             /\ sq.state \in {"approaching", "engaging"}
             /\ sq.state = "engaging"
                  <=> sqPrev.distance <= EngageDistance * TicksPerSecond
        /\ sqPrev.state = "engaging"   => sq.state \in {"engaging", "retreating"}
        /\ sqPrev.state = "retreating" => sq.state \in {"retreating", "regrouping"}
        /\ sqPrev.state = "regrouping" => sq.state \in {"regrouping", "approaching"}
        /\ sq.state = "engaging" =>
             /\ sqElapsed = sq.stateTimer
             /\ sqElapsed <= Seconds(8)
        /\ sq.state = "retreating" =>
             /\ sqElapsed - sq.stateTimer > Seconds(8)
             /\ sqElapsed - sq.stateTimer <= Seconds(8) + MaxDt
             /\ sq.stateTimer <= Seconds(3)
        /\ sq.state = "regrouping" =>
             /\ sqElapsed - sq.stateTimer > Seconds(11)
             /\ sqElapsed - sq.stateTimer <= Seconds(11) + 2 * MaxDt
             /\ sq.stateTimer <= Seconds(4)
        /\ (sq.state = "approaching" /\ sqCycles > 0) =>
             /\ sqElapsed > Seconds(15)
             /\ sqElapsed <= Seconds(15) + 3 * MaxDt

\* a squad of two has gone round the cycle and is approaching again
C9_Witness ==
    /\ sq.inRegistry
    /\ sq.members = 2
    /\ sq.state = "approaching"
    /\ sqPrev.state = "regrouping"
    /\ sqCycles = 1
    /\ sqElapsed > Seconds(15)

----------------------------------------------------------------------------
(* Missiles: Missile and MissileManager *)
(*                                                                         *)
(* SpecMissile follows the missiles through the frame: EnemyManager.update *)
(* (enemies appear, die of other causes, dead ones leave the list), then   *)
(* MissileManager.update, then MissileManager.checkCollisions.  An enemy   *)
(* keeps its identity after it has left the list, as the object a missile  *)
(* still refers to does.  Where an enemy is relative to the missile is an  *)
(* input of every MissileManager.update: its distance, and the angle       *)
(* between the missile's heading and the direction to it, in degrees.      *)

lifetime        == 6 * TicksPerSecond
lockRange       == 200
maxLockAngle    == 30
reacquireAngle  == 90
trackingDelay   == 0
MissileFireRate == TicksPerSecond \div 2
MissileHitRange2 == 5          \* 2 x 2.5
MissileBaseDamage2 == 30       \* 2 x 15

\* where a live enemy can be: touching the missile, in lock range ahead,
\* to the side or behind, or out of lock range
Geometry ==
    { [distance |-> 2,   angle |-> 20],
      [distance |-> 150, angle |-> 20],
      [distance |-> 150, angle |-> 60],
      [distance |-> 150, angle |-> 120],
      [distance |-> 250, angle |-> 20] }

\* Vector3.Dot of the two unit vectors: 100 x cos(angle)
Alignment(angle) ==
    CASE angle = 0 -> 100  [] angle = 20 -> 94  [] angle = 30 -> 87
      [] angle = 60 -> 50  [] angle = 90 -> 0   [] angle = 120 -> -50
      [] OTHER -> -100

\* MissileManager.fireMissile: twice 15 + (weaponLevel - 1) x 7.5
MissileDamage2(level) == MissileBaseDamage2 + (level - 1) * 15

NewMissile(level) ==
    [damage2 |-> MissileDamage2(level), isAlive |-> TRUE, shouldExplode |-> FALSE,
     age |-> 0, target |-> 0, targetLocked |-> FALSE]

NewMissileEnemy ==
    [status |-> "listed", isAlive |-> TRUE, health2 |-> 2 * ScoutHealth,
     distance |-> 0, angle |-> 0]

\* Enemy.takeDamage, on doubled health
MissileEnemy_takeDamage(e, amount2) ==
    LET h == e.health2 - amount2
    IN  [e EXCEPT !.health2 = h, !.isAlive = IF h <= 0 THEN FALSE ELSE @]

\* acquireTarget: if (!enemy.isAlive) continue, over the enemies of the list
Lockable(e) == e.status = "listed" /\ e.isAlive

\* acquireTarget: the two cone tests
InLockCone(targetLocked, angle) ==
    /\ ~(~targetLocked /\ angle > maxLockAngle)
    /\ ~(targetLocked /\ angle > reacquireAngle)

\* acquireTarget: for (const enemy of enemies), from index i, with the best
\* enemy and the best alignment so far
RECURSIVE AcquireFrom(_, _, _, _, _)
AcquireFrom(targetLocked, es, i, bestEnemy, bestAlignment) ==
    IF i > NumMissileEnemies THEN bestEnemy
    ELSE IF ~Lockable(es[i])
         THEN AcquireFrom(targetLocked, es, i + 1, bestEnemy, bestAlignment)
    ELSE IF es[i].distance > lockRange
         THEN AcquireFrom(targetLocked, es, i + 1, bestEnemy, bestAlignment)
    ELSE IF ~InLockCone(targetLocked, es[i].angle)
         THEN AcquireFrom(targetLocked, es, i + 1, bestEnemy, bestAlignment)
    ELSE IF Alignment(es[i].angle) > bestAlignment
         THEN AcquireFrom(targetLocked, es, i + 1, i, Alignment(es[i].angle))
    ELSE AcquireFrom(targetLocked, es, i + 1, bestEnemy, bestAlignment)

Missile_acquireTarget(m, es) ==
    LET bestEnemy == AcquireFrom(m.targetLocked, es, 1, 0, -100)
    IN  IF bestEnemy # 0
        THEN [m EXCEPT !.target = bestEnemy, !.targetLocked = TRUE]
        ELSE m

\* Missile.update: if (!this.target && this.age >= this.trackingDelay)
NeedsAcquire_Always(m) == TRUE

NeedsAcquire(m) == m.target = 0 /\ m.age >= trackingDelay

\* Missile.update: if (this.target && this.target.isAlive)
TargetUsable_AnyTarget(m, es) == m.target # 0

TargetUsable(m, es) == m.target # 0 /\ es[m.target].isAlive

\* Missile.update: the reference is dropped and the lock flag cleared
\* before the new search
Missile_dropTarget(m) == [m EXCEPT !.target = 0, !.targetLocked = FALSE]

\* what one Missile.update held, searched and steered at
UpdateLog(m, es) ==
    [called |-> TRUE, held |-> m.target,
     heldAlive |-> (m.target # 0 /\ es[m.target].isAlive),
     guided |-> FALSE, searched |-> FALSE, afterDeath |-> FALSE,
     found |-> 0, foundAlive |-> FALSE,
     narrowBest |-> AcquireFrom(FALSE, es, 1, 0, -100),
     wideBest |-> AcquireFrom(TRUE, es, 1, 0, -100),
     tracked |-> 0, trackedAlive |-> FALSE, target |-> m.target]

\* Missile.update(deltaTime, enemies); outOfBounds: the new position is
\* more than 300 units from the origin
Missile_update(m, dt, es, outOfBounds) ==
    LET aged == [m EXCEPT !.age = @ + dt]
        log  == UpdateLog(m, es)
    IN  IF aged.age >= lifetime \/ outOfBounds
        THEN [m   |-> [aged EXCEPT !.shouldExplode = TRUE, !.isAlive = FALSE],
              log |-> log]
        ELSE
          LET first == IF NeedsAcquire(aged)
                       THEN Missile_acquireTarget(aged, es) ELSE aged
              log1  == IF NeedsAcquire(aged)
                       THEN [log EXCEPT !.guided = TRUE, !.searched = TRUE,
                                        !.found = first.target,
                                        !.foundAlive = (first.target # 0 /\
                                                        es[first.target].isAlive)]
                       ELSE [log EXCEPT !.guided = TRUE]
          IN  IF TargetUsable(first, es)
              THEN \* trackTarget: steers at the target, the target stays
                   [m   |-> first,
                    log |-> [log1 EXCEPT !.tracked = first.target,
                                         !.trackedAlive = es[first.target].isAlive,
                                         !.target = first.target]]
              ELSE IF first.target # 0
              THEN LET again == Missile_acquireTarget(Missile_dropTarget(first), es)
                   IN  [m   |-> again,
                        log |-> [log1 EXCEPT !.searched = TRUE, !.afterDeath = TRUE,
                                             !.found = again.target,
                                             !.foundAlive = (again.target # 0 /\
                                                             es[again.target].isAlive),
                                             !.target = again.target]]
              ELSE [m |-> first, log |-> [log1 EXCEPT !.target = first.target]]

NoUpdateLog ==
    [called |-> FALSE, held |-> 0, heldAlive |-> FALSE,
     guided |-> FALSE, searched |-> FALSE, afterDeath |-> FALSE,
     found |-> 0, foundAlive |-> FALSE, narrowBest |-> 0, wideBest |-> 0,
     tracked |-> 0, trackedAlive |-> FALSE, target |-> 0]

\* MissileManager.update: for (let i = length - 1; i >= 0; i--), at index i
RECURSIVE MissileManager_updateFrom(_, _, _, _, _, _)
MissileManager_updateFrom(ms, i, log, dt, es, outOfBounds) ==
    IF i = 0 THEN [missiles |-> ms, log |-> log]
    ELSE
      LET r  == IF ms[i].isAlive
                THEN Missile_update(ms[i], dt, es, outOfBounds)
                ELSE [m |-> ms[i], log |-> log]
      IN  IF ~r.m.isAlive
          THEN MissileManager_updateFrom(RemoveAt(ms, i), i - 1, r.log, dt, es, outOfBounds)
          ELSE MissileManager_updateFrom([ms EXCEPT ![i] = r.m], i - 1, r.log,
                                         dt, es, outOfBounds)

\* checkCollisions: for (const enemy of enemies), from index k, for one missile
RECURSIVE MissileVsEnemies(_, _, _)
MissileVsEnemies(m, es, k) ==
    IF k > NumMissileEnemies THEN [m |-> m, es |-> es]
    ELSE IF es[k].status # "listed" \/ ~es[k].isAlive
         THEN MissileVsEnemies(m, es, k + 1)
    ELSE IF 2 * es[k].distance < MissileHitRange2
         THEN [m  |-> [m EXCEPT !.isAlive = FALSE],
               es |-> [es EXCEPT ![k] = MissileEnemy_takeDamage(es[k], m.damage2)]]
    ELSE MissileVsEnemies(m, es, k + 1)

\* MissileManager.checkCollisions: every missile of the list, from index i
RECURSIVE MissileManager_checkCollisionsFrom(_, _, _)
MissileManager_checkCollisionsFrom(ms, es, i) ==
    IF i = 0 THEN [missiles |-> ms, es |-> es]
    ELSE LET r == MissileVsEnemies(ms[i], es, 1)
         IN  MissileManager_checkCollisionsFrom([ms EXCEPT ![i] = r.m], r.es, i - 1)

\* the enemies' places as the missiles find them: only a live enemy of the
\* list has one that matters, and only while a missile is in flight
Nowhere == [distance |-> 0, angle |-> 0]

Places(ms, es) ==
    { geo \in [1..NumMissileEnemies -> Geometry \cup {Nowhere}] :
        \A i \in 1..NumMissileEnemies :
            (geo[i] = Nowhere) <=>
                (ms = << >> \/ es[i].status # "listed" \/ ~es[i].isAlive) }

Placed(es, geo) ==
    [i \in 1..NumMissileEnemies |->
        [es[i] EXCEPT !.distance = geo[i].distance, !.angle = geo[i].angle]]

outsideMissiles == <<fragmentVars, enemyVars, turretVars, ledgerVars, combatVars, squadVars, gunVars, configVars, rosterVars>>

\* MissileManager.fireMissile, between two frames
fireMissile ==
    /\ mphase = "enemies"
    /\ missileCount > 10 - MaxMissilesFired
    /\ Len(missiles) < MaxMissilesInFlight
    /\ missileCount > 0
    /\ fireCooldown <= 0
    /\ missiles' = Append(missiles, NewMissile(weaponLevel))
    /\ missileCount' = missileCount - 1
    /\ fireCooldown' = MissileFireRate
    /\ UNCHANGED <<menemies, mphase, mPrev, outsideMissiles>>

\* EnemyManager.update, as far as the missiles' enemies go: an enemy may
\* appear, a live enemy may be destroyed by something else, and every dead
\* enemy leaves the list
MissileEnemiesUpdate ==
    /\ mphase = "enemies"
    /\ \E spawn \in 0..NumMissileEnemies, kill \in 0..NumMissileEnemies :
         /\ spawn # 0 => menemies[spawn].status = "none"
         /\ kill # 0 => menemies[kill].status = "listed" /\ menemies[kill].isAlive
         /\ menemies' =
              [i \in 1..NumMissileEnemies |->
                 LET e == menemies[i]
                 IN  IF i = spawn THEN NewMissileEnemy
                     ELSE IF e.status = "listed" /\ (i = kill \/ ~e.isAlive)
                     THEN [e EXCEPT !.status = "removed", !.isAlive = FALSE,
                                    !.distance = 0, !.angle = 0]
                     ELSE e]
    /\ mphase' = "missiles"
    /\ UNCHANGED <<missiles, missileCount, fireCooldown, mPrev, outsideMissiles>>

MissileManagerUpdate ==
    /\ mphase = "missiles"
    /\ \E dt \in 1..MaxDt,
          outOfBounds \in IF missiles = << >> THEN {FALSE} ELSE BOOLEAN,
          geo \in Places(missiles, menemies) :
         LET es == Placed(menemies, geo)
             r  == MissileManager_updateFrom(missiles, Len(missiles), NoUpdateLog,
                                             dt, es, outOfBounds)
         IN  /\ fireCooldown' = IF fireCooldown - dt < 0 THEN 0 ELSE fireCooldown - dt
             /\ missiles' = r.missiles
             /\ mPrev' = r.log
             /\ menemies' = es
    /\ mphase' = "collisions"
    /\ UNCHANGED <<missileCount, outsideMissiles>>

MissileManagerCheckCollisions ==
    /\ mphase = "collisions"
    /\ LET r == MissileManager_checkCollisionsFrom(missiles, menemies, Len(missiles))
       IN  /\ missiles' = r.missiles
           \* the places are those of this frame: the next
           \* MissileManager.update finds the enemies anew
           /\ menemies' = Placed(r.es, [i \in 1..NumMissileEnemies |-> Nowhere])
    /\ mphase' = "enemies"
    /\ UNCHANGED <<missileCount, fireCooldown, mPrev, outsideMissiles>>

NextMissile ==
    \/ fireMissile
    \/ MissileEnemiesUpdate
    \/ MissileManagerUpdate
    \/ MissileManagerCheckCollisions

SpecMissile == Init /\ [][NextMissile]_vars

----------------------------------------------------------------------------
(* Missile claims *)

\* C11: once a missile has a target it keeps that same target for as long
\* as the target is alive: a Missile.update that starts with a live target
\* ends with the same target, wherever that target and the other enemies
\* are.
C11_TargetKeptWhileAlive ==
    (mPrev.called /\ mPrev.held # 0 /\ mPrev.heldAlive)
        => mPrev.target = mPrev.held

\* the held target is alive but out of lock range, another enemy sits in
\* the initial-lock cone, and the missile still steered at the held target
C11_Witness ==
    /\ mphase = "collisions"
    /\ mPrev.called /\ mPrev.held # 0 /\ mPrev.heldAlive
    /\ mPrev.tracked = mPrev.held
    /\ menemies[mPrev.held].distance > lockRange
    /\ mPrev.narrowBest \notin {0, mPrev.held}

\* C12: the search that follows the death of the locked target accepts
\* what a 90-degree cone accepts, and the search of a missile that holds
\* no target accepts what the 30-degree cone accepts.
C12_ReacquisitionUsesWidenedCone ==
    /\ (mPrev.called /\ mPrev.afterDeath) => mPrev.found = mPrev.wideBest
    /\ (mPrev.called /\ mPrev.searched /\ ~mPrev.afterDeath)
           => mPrev.found = mPrev.narrowBest

\* C13: a missile never uses a dead target: trackTarget runs only against
\* a live enemy, acquireTarget selects only a live enemy, and an update
\* that finds its target dead and reaches the guidance step steers at
\* nothing and no longer holds that target afterwards.
C13_NeverUsesDeadTarget ==
    mPrev.called =>
        /\ mPrev.tracked # 0 => mPrev.trackedAlive
        /\ mPrev.found # 0 => mPrev.foundAlive
        /\ (mPrev.held # 0 /\ ~mPrev.heldAlive /\ mPrev.guided)
               => /\ mPrev.tracked = 0
                  /\ mPrev.target # mPrev.held
                  /\ mPrev.target # 0 =>
                         (mPrev.target = mPrev.found /\ mPrev.foundAlive)

\* the held target was dead, the update dropped it and locked a live enemy
C13_Witness ==
    /\ mphase = "collisions"
    /\ mPrev.called /\ mPrev.held # 0 /\ ~mPrev.heldAlive /\ mPrev.guided
    /\ mPrev.found # 0 /\ mPrev.found # mPrev.held

----------------------------------------------------------------------------
(* Player: trigger, outer cooldown and bursts *)
(*                                                                         *)
(* SpecFire follows Player.update's firing logic with the tier table that  *)
(* has burst tiers (level 4: 3 shots 0.08 s apart, level 8: 5 shots        *)
(* 0.06 s apart).  Time is in 1/CentisPerSecond s.  Every shot is one      *)
(* fireSingleShot; the projectiles it creates are followed in SpecCombat.  *)

Centis(hundredths) == (hundredths * CentisPerSecond) \div 100

\* Game.update caps deltaTime at 0.1 s; a frame at 20 frames per second
\* takes half of that
MaxFireDt == CentisPerSecond \div 10
FireDts == {MaxFireDt \div 2, MaxFireDt}

\* WeaponSystem.calculateFireRate
calculateFireRate(level) ==
    CASE level = 0 -> Centis(100) [] level = 1 -> Centis(35)
      [] level = 2 -> Centis(15)  [] level = 3 -> Centis(60)
      [] level = 4 -> Centis(50)  [] level = 5 -> Centis(20)
      [] level = 6 -> Centis(40)  [] level = 7 -> Centis(30)
      [] level = 8 -> Centis(40)  [] level = 9 -> Centis(8)
      [] level = 10 -> Centis(50) [] OTHER -> Centis(35)

\* WeaponSystem.calculateBurstCount, the table with burst tiers
calculateBurstCount(level) ==
    CASE level = 4 -> 3 [] level = 8 -> 5 [] OTHER -> 1

\* WeaponSystem.calculateBurstDelay
calculateBurstDelay(level) ==
    CASE level = 4 -> Centis(8) [] level = 8 -> Centis(6) [] OTHER -> 0

\* Math.max(0, cooldown - deltaTime)
CoolDown(cooldown, dt) == IF cooldown - dt < 0 THEN 0 ELSE cooldown - dt

\* Player.update, up to the projectile sweep: the new trigger state, whether
\* a shot was fired and whether it opened a burst
Player_updateFiring(g, level, dt) ==
    LET cooled == [g EXCEPT !.shootCooldown = CoolDown(@, dt),
                            !.burstCooldown = CoolDown(@, dt)]
    IN  IF cooled.burstShotsRemaining > 0 /\ cooled.burstCooldown <= 0
        THEN [gun   |-> [cooled EXCEPT !.burstShotsRemaining = @ - 1,
                                       !.burstCooldown = calculateBurstDelay(level)],
              fired |-> TRUE, first |-> FALSE]
        ELSE IF /\ cooled.isShooting /\ cooled.shootCooldown <= 0
                /\ level > 0 /\ cooled.burstShotsRemaining = 0
        THEN [gun   |-> [cooled EXCEPT
                            !.burstShotsRemaining = calculateBurstCount(level) - 1,
                            !.shootCooldown = calculateFireRate(level),
                            !.burstCooldown = calculateBurstDelay(level)],
              fired |-> TRUE, first |-> TRUE]
        ELSE [gun |-> cooled, fired |-> FALSE, first |-> FALSE]

outsideGun == <<fragmentVars, enemyVars, turretVars, ledgerVars, combatVars, squadVars, missileVars, configVars, rosterVars>>

startShooting ==
    /\ gun' = [gun EXCEPT !.isShooting = TRUE]
    /\ UNCHANGED <<shot, outsideGun>>

stopShooting ==
    /\ gun' = [gun EXCEPT !.isShooting = FALSE]
    /\ shot' = [shot EXCEPT !.held = FALSE]
    /\ UNCHANGED outsideGun

\* Player.update(deltaTime): shot.since is the time since the last shot,
\* shot.level the tier it was fired at, shot.last whether it closed its
\* burst; they are kept up to one second
PlayerUpdateFiring ==
    /\ \E dt \in FireDts :
         LET r     == Player_updateFiring(gun, weaponLevel, dt)
             since == IF shot.since + dt > CentisPerSecond
                      THEN CentisPerSecond ELSE shot.since + dt
         IN  /\ gun' = r.gun
             /\ shot' = IF r.fired
                        THEN [fired |-> TRUE, first |-> r.first,
                              gap |-> IF shot.level = 0 THEN CentisPerSecond ELSE since,
                              since |-> 0, level |-> weaponLevel,
                              last |-> (r.gun.burstShotsRemaining = 0),
                              heldSince |-> shot.held /\ gun.isShooting,
                              held |-> gun.isShooting,
                              after |-> [level |-> shot.level, last |-> shot.last]]
                        ELSE [shot EXCEPT !.fired = FALSE, !.since = since,
                                          !.held = @ /\ gun.isShooting]
    /\ UNCHANGED outsideGun

NextFire ==
    \/ startShooting
    \/ stopShooting
    \/ PlayerUpgradeWeapons
    \/ PlayerUpdateFiring

SpecFire == Init /\ [][NextFire]_vars

\* C14: at a tier with burstCount N > 1 and the trigger held, the outer
\* cooldown begins only when the last shot of a burst has been fired: the
\* shot that opens the next burst comes at least fireRate after the shot
\* that closed the previous one.
C14_CooldownBeginsAfterTheBurst ==
    ( /\ shot.fired /\ shot.first
      /\ calculateBurstCount(weaponLevel) > 1
      /\ shot.after.level = weaponLevel /\ shot.after.last
      /\ shot.heldSince )
        => shot.gap >= calculateFireRate(weaponLevel)

----------------------------------------------------------------------------
(* Order of the collision checks in AsteroidManager.update *)

Crashes == {k \in 1..Len(asteroidLog) : asteroidLog[k].cause # "destroyed"}

\* C15: an asteroid that physically collides with the player, the station
\* or an enemy is removed in that update with the crash burst only: it
\* takes no projectile damage in that update, does not split and leaves no
\* clean-kill burst.
C15_CrashedAsteroidTakesNoProjectileDamage ==
    \A k \in Crashes :
        /\ asteroidLog[k].burst = "crash"
        /\ asteroidLog[k].pieces = 0
        /\ asteroidLog[k].hits = 0
        /\ asteroidLog[k].health = asteroidLog[k].before

\* C15, as the code has it: the crashing asteroid is not tested against any
\* projectile, does not split and leaves the crash burst only (splash from
\* a hit on an asteroid later in the list can still have reached it).
C15_CrashedAsteroidIsNotTestedAgainstProjectiles ==
    \A k \in Crashes :
        /\ asteroidLog[k].burst = "crash"
        /\ asteroidLog[k].pieces = 0
        /\ asteroidLog[k].hits = 0

\* an asteroid crashed while a live projectile was within hit range of it
C15_Witness ==
    /\ phase = "enemies"
    /\ \E k \in Crashes : \E j \in 1..Len(projectiles) :
          /\ projectiles[j].isAlive
          /\ Abs(projectiles[j].pos - asteroidLog[k].pos) < AsteroidHitRange

----------------------------------------------------------------------------
(* End-of-frame sweep *)

\* C16: at the end of every Game.update no projectile of player.projectiles
\* and no missile of MissileManager.missiles has isAlive = false.  The frame
\* of the combat passes ends when EnemyManager.update has run, the frame of
\* the missiles when checkCollisions has run.
C16_NoDeadBallisticAtEndOfFrame ==
    /\ (phase = "player" /\ cframe > 0)
           => \A j \in 1..Len(projectiles) : projectiles[j].isAlive
    /\ (mphase = "enemies")
           => \A j \in 1..Len(missiles) : missiles[j].isAlive

----------------------------------------------------------------------------
(* Victory *)

\* C17: in every reachable state with currentSector = 4 and all three
\* levels at least 10 the victory handler has been invoked, whether the
\* levels reached 10 before or after the jump into sector 4.
C17_VictoryAtSector4WithAllLevels10 ==
    (currentSector = 4 /\ shipGunsLevel >= 10 /\ stationLevel >= 10 /\ defenseLevel >= 10)
        => victory

----------------------------------------------------------------------------
(* WeaponSystem.getWeaponConfig *)
(*                                                                         *)
(* SpecConfig calls getWeaponConfig with integer levels from below 0 to    *)
(* above 10.  Seconds are in thousandths, bullet sizes and spread angles   *)
(* in hundredths, colours in tenths, the splash radius in half units and   *)
(* the resource multiplier in hundredths.                                  *)

WEAPON_NAMES ==
    << "No Weapon", "Kinetic Cannon", "Auto-Cannon", "Heavy Cannon",
       "Scatter Shotgun", "Plasma Lance", "Chain Lightning", "Ion Disruptor",
       "Rotary Minigun", "Vortex Cannon", "Singularity Bomb" >>

\* this.WEAPON_NAMES[level]: an index outside the array yields undefined
WeaponName(level) ==
    IF level \in 0..(Len(WEAPON_NAMES) - 1) THEN WEAPON_NAMES[level + 1]
    ELSE "undefined"

WeaponSystem_calculateFireRate(level) ==
    CASE level = 0 -> 1000 [] level = 1 -> 100 [] level = 2 -> 50
      [] level = 3 -> 150  [] level = 4 -> 250 [] level = 5 -> 80
      [] level = 6 -> 120  [] level = 7 -> 100 [] level = 8 -> 30
      [] level = 9 -> 150  [] level = 10 -> 200 [] OTHER -> 150

calculateBulletCount(level) ==
    CASE level = 4 -> 8 [] level = 8 -> 3 [] OTHER -> 1

calculateBulletSpeed(level) ==
    CASE level = 0 -> 300 [] level = 1 -> 450 [] level = 2 -> 500
      [] level = 3 -> 400 [] level = 4 -> 550 [] level = 5 -> 700
      [] level = 6 -> 900 [] level = 7 -> 600 [] level = 8 -> 650
      [] level = 9 -> 500 [] level = 10 -> 450 [] OTHER -> 450

calculateBulletSize(level) ==
    CASE level = 0 -> 15 [] level = 1 -> 20 [] level = 2 -> 15
      [] level = 3 -> 50 [] level = 4 -> 18 [] level = 5 -> 12
      [] level = 6 -> 10 [] level = 7 -> 25 [] level = 8 -> 15
      [] level = 9 -> 35 [] level = 10 -> 60 [] OTHER -> 20

calculateLifetime(level) == 3000

getBulletColor(level) ==
    CASE level = 0 -> <<3, 3, 3>>   [] level = 1 -> <<8, 6, 2>>
      [] level = 2 -> <<9, 7, 3>>   [] level = 3 -> <<10, 4, 1>>
      [] level = 4 -> <<9, 6, 1>>   [] level = 5 -> <<8, 2, 8>>
      [] level = 6 -> <<2, 8, 10>>  [] level = 7 -> <<3, 8, 10>>
      [] level = 8 -> <<10, 5, 2>>  [] level = 9 -> <<6, 2, 9>>
      [] level = 10 -> <<9, 9, 10>> [] OTHER -> <<8, 6, 2>>

calculateSpreadAngle(level) ==
    CASE level = 4 -> 25 [] level = 8 -> 5 [] OTHER -> 2

\* 'No burst mechanics - using multi-shot instead'
WeaponSystem_calculateBurstCount(level) == 1

WeaponSystem_calculateBurstDelay(level) == 0

\* mutant: the level is capped one past the last weapon
ClampLevel_CapEleven(level) ==
    IF level < 0 THEN 0 ELSE IF level > 11 THEN 11 ELSE level

\* Math.max(0, Math.min(10, level))
ClampLevel(level) ==
    LET capped == IF level < 10 THEN level ELSE 10
    IN  IF capped > 0 THEN capped ELSE 0

getWeaponConfig(levelArg) ==
    LET level == ClampLevel(levelArg)
    IN  [level |-> level,
         name |-> WeaponName(level),
         fireRate |-> WeaponSystem_calculateFireRate(level),
         bulletCount |-> calculateBulletCount(level),
         bulletSpeed |-> calculateBulletSpeed(level),
         bulletSize |-> calculateBulletSize(level),
         damage |-> calculateDamage(level),
         lifetime |-> calculateLifetime(level),
         color |-> getBulletColor(level),
         spreadAngle |-> calculateSpreadAngle(level),
         splashRadius |-> calculateSplashRadius(level),
         resourceMultiplier |-> calculateResourceMultiplier(level),
         cost |-> calculateUpgradeCost(level),
         burstCount |-> WeaponSystem_calculateBurstCount(level),
         burstDelay |-> WeaponSystem_calculateBurstDelay(level),
         penetration |-> calculatePenetration(level)]

ConfigLevels == (0 - ConfigLevelSpan)..(10 + ConfigLevelSpan)

outsideConfig == <<fragmentVars, enemyVars, turretVars, ledgerVars, combatVars, squadVars, missileVars, gunVars, rosterVars>>

\* a caller asks for the config of some integer level
GetWeaponConfig ==
    /\ \E level \in ConfigLevels :
         cfgCall' = [called |-> TRUE, level |-> level,
                     config |-> getWeaponConfig(level)]
    /\ UNCHANGED outsideConfig

NextConfig == GetWeaponConfig

SpecConfig == Init /\ [][NextConfig]_vars

\* min(10, max(0, level))
ClampedLevel(level) == IF level < 0 THEN 0 ELSE IF level > 10 THEN 10 ELSE level

C18_WitnessBelow ==
    /\ cfgCall.called
    /\ cfgCall.level < 0
    /\ cfgCall.config.name = "No Weapon"

----------------------------------------------------------------------------
(* Squad: the edges of the state machine and the target switch *)

SquadEdges ==
    { <<"approaching", "engaging">>, <<"engaging", "retreating">>,
      <<"retreating", "regrouping">>, <<"regrouping", "approaching">> }

\* C19: over one Squad.update the state stays or moves along exactly one of
\* the four edges approaching -> engaging -> retreating -> regrouping ->
\* approaching; stateTimer is 0 after every edge; approaching -> engaging is
\* taken only when the centre was within 60 units of the target position;
\* and the update of an empty squad changes neither state nor stateTimer.
C19_OneEdgePerUpdate ==
    sqPrev.state # "none" =>
        /\ sq.state = sqPrev.state \/ <<sqPrev.state, sq.state>> \in SquadEdges
        /\ sq.state # sqPrev.state => sq.stateTimer = 0
        /\ (sqPrev.state = "approaching" /\ sq.state = "engaging")
             => sqPrev.distance <= EngageDistance * TicksPerSecond
        /\ sqPrev.empty =>
             /\ sq.state = sqPrev.state
             /\ sq.stateTimer = sqPrev.stateTimer

\* a squad with members has just turned from approaching to engaging
C19_Witness ==
    /\ ~sqPrev.empty
    /\ sqPrev.state = "approaching"
    /\ sq.state = "engaging"
    /\ sq.stateTimer = 0
    /\ sqPrev.stateTimer > 0

\* an empty squad was updated in the middle of a leg and kept its timer
C19_WitnessEmpty ==
    /\ sqPrev.empty
    /\ sqPrev.state = "engaging"
    /\ sq.stateTimer > 0

\* C20 as stated: targetType does not change during a Squad.update that
\* starts in engaging.
C20_TargetFixedWhileEngaging ==
    sqPrev.state = "engaging" => sq.targetType = sqPrev.targetType

\* C20 amended: the target switch is drawn at the end of every update of a
\* squad that has members, whatever its state, engaging included: after the
\* update targetType is the drawn target, or the old one when the draw
\* fails. The update of an empty squad leaves targetType alone.
C20_TargetSwitchedInEveryState ==
    sqPrev.state # "none" =>
        sq.targetType = IF sqPrev.empty \/ sqPrev.flip = "keep"
                        THEN sqPrev.targetType
                        ELSE sqPrev.flip

\* a squad that was engaging the player has switched to the station
C20_Witness ==
    /\ ~sqPrev.empty
    /\ sqPrev.state = "engaging"
    /\ sqPrev.targetType = "player"
    /\ sq.state = "engaging"
    /\ sq.targetType = "station"

----------------------------------------------------------------------------
(* Squad rosters: spawnSquad, the death of members and their removal by    *)
(* EnemyManager.update, for squads of every size spawnSquad can draw.      *)
(* Positions, health and fire are left out: an enemy is its identity, its  *)
(* isAlive flag and its squad back-reference (0 for null).                 *)

\* spawnSquad draws 2-3, 3-5, 4-7 or 5-9 ships, by difficulty
SquadSizes == 2..9

outsideRoster == <<fragmentVars, ledgerVars, combatVars, squadVars, missileVars, gunVars, configVars, enemyVars,
                   turretVars>>

RosterWork == [enemies |-> rEnemies, squads |-> rSquads, gone |-> rGone, log |-> << >>]

SquadIndex(sqs, id) == CHOOSE k \in 1..Len(sqs) : sqs[k].id = id

\* spawnSquad, from ship i on: this.enemies.push(enemy); squad.addEnemy(enemy)
RECURSIVE SpawnShips(_, _, _, _)
SpawnShips(w, id, i, squadSize) ==
    IF i > squadSize THEN w
    ELSE
      LET k  == SquadIndex(w.squads, id)
          s1 == Squad_addEnemy(w.squads[k], 10 * id + i)
      IN  SpawnShips(
              [w EXCEPT !.enemies = Append(@, [id |-> 10 * id + i, isAlive |-> TRUE,
                                               squad |-> id]),
                        !.squads[k] = s1,
                        !.log = Append(@, [op |-> "addEnemy", enemy |-> 10 * id + i,
                                           squad |-> s1])],
              id, i + 1, squadSize)

\* spawnSquad: new Squad(spawnCenter), this.squads.push(squad), then the ships
Roster_spawnSquad(w, id, squadSize) ==
    SpawnShips([w EXCEPT !.squads = Append(@, [id |-> id, enemies |-> << >>,
                                                formationPositions |-> << >>])],
               id, 1, squadSize)

\* the enemies loop of EnemyManager.update, from index i down: a dead enemy
\* leaves its squad (removeEnemy sets enemy.squad = null) and the list
RECURSIVE RemoveDead(_, _)
RemoveDead(w, i) ==
    IF i = 0 THEN w
    ELSE
      LET e == w.enemies[i]
      IN  IF e.isAlive THEN RemoveDead(w, i - 1)
          ELSE IF e.squad = 0
          THEN RemoveDead([w EXCEPT !.enemies = RemoveAt(@, i),
                                    !.gone = @ \cup {[id |-> e.id, squad |-> e.squad]}],
                          i - 1)
          ELSE
            LET k  == SquadIndex(w.squads, e.squad)
                s1 == Squad_removeEnemy(w.squads[k], e.id)
                isMember == IndexOf(w.squads[k].enemies, e.id) > 0
                squadAfter == IF isMember THEN 0 ELSE e.squad
            IN  RemoveDead(
                    [w EXCEPT !.squads[k] = s1,
                              !.enemies = RemoveAt(@, i),
                              !.gone = @ \cup {[id |-> e.id, squad |-> squadAfter]},
                              !.log = Append(@, [op |-> "removeEnemy", enemy |-> e.id,
                                                 squad |-> s1])],
                    i - 1)

\* the squads spawnSquad can add within the bounds; 0 when the spawn timer
\* is not due
SpawnChoices ==
    {0} \cup { n \in SquadSizes :
                 /\ rSpawned < MaxRosterSquads
                 /\ Len(rEnemies) + Cardinality(rGone) + n <= MaxRosterEnemies }

\* Enemy.takeDamage with damage that brings health to 0, from whatever hit
\* the enemy (a projectile, a missile, an asteroid)
RosterEnemyKilled ==
    /\ Len(SelectSeq(rEnemies, LAMBDA e : ~e.isAlive)) < MaxDeadListed
    /\ \E i \in 1..Len(rEnemies) :
         /\ rEnemies[i].isAlive
         /\ rEnemies' = [rEnemies EXCEPT ![i].isAlive = FALSE]
    /\ rLog' = << >>
    /\ UNCHANGED <<rSquads, rGone, rSpawned, outsideRoster>>

\* EnemyManager.update: spawnSquad when the timer is due, the squads loop,
\* the enemies loop
RosterManagerUpdate ==
    /\ \E squadSize \in SpawnChoices :
         LET doSpawn == squadSize > 0
             w0 == IF doSpawn THEN Roster_spawnSquad(RosterWork, rSpawned + 1, squadSize)
                   ELSE RosterWork
             w1 == [w0 EXCEPT !.squads = UpdateSquads(@)]
             w2 == RemoveDead(w1, Len(w1.enemies))
         IN  /\ rSpawned' = rSpawned + (IF doSpawn THEN 1 ELSE 0)
             /\ rEnemies' = w2.enemies
             /\ rSquads' = w2.squads
             /\ rGone' = w2.gone
             /\ rLog' = w2.log
    /\ UNCHANGED outsideRoster

NextRoster ==
    \/ RosterEnemyKilled
    \/ RosterManagerUpdate

SpecRoster == Init /\ [][NextRoster]_vars

Range(seq) == { seq[k] : k \in 1..Len(seq) }

\* C21: rosters and back-references agree in every state: an enemy of the
\* list is on the roster of squad s exactly if its squad is s; no enemy is
\* on two rosters or twice on one; an enemy that left the list is on no
\* roster and its squad is null.
C21_RosterMatchesBackReference ==
    /\ \A i \in 1..Len(rEnemies) : \A k \in 1..Len(rSquads) :
         rEnemies[i].id \in Range(rSquads[k].enemies)
           <=> rEnemies[i].squad = rSquads[k].id
    /\ \A k \in 1..Len(rSquads) :
         Cardinality(Range(rSquads[k].enemies)) = Len(rSquads[k].enemies)
    /\ \A k, m \in 1..Len(rSquads) :
         k # m => Range(rSquads[k].enemies) \cap Range(rSquads[m].enemies) = {}
    /\ \A g \in rGone :
         /\ g.squad = 0
         /\ \A k \in 1..Len(rSquads) : g.id \notin Range(rSquads[k].enemies)

\* two squads are in the registry, a member of one has died and left its
\* roster, and a dead member of the other is still listed
C21_Witness ==
    /\ Len(rSquads) = 2
    /\ rGone # {}
    /\ \E i \in 1..Len(rEnemies) : ~rEnemies[i].isAlive /\ rEnemies[i].squad # 0
    /\ \E i \in 1..Len(rEnemies) : rEnemies[i].isAlive

----------------------------------------------------------------------------
(* Squad formations: claims *)

\* the V: ship i (from 0) is in row i div 2, 12 units back per row and
\* 8 units out per row, to the right for even i and to the left for odd i
IsVFormation(f) ==
    \A k \in 1..Len(f) :
        LET row == (k - 1) \div 2
        IN  f[k].offset = <<(IF k % 2 = 1 THEN 1 ELSE -1) * row * 8000, 0, 0 - row * 12000>>

\* the slots of wedge row r, in list order
WedgeSlots(f, r) == SelectSeq(f, LAMBDA p : p.offset[3] = 0 - r * 15000)

\* the wedge: rows 15 units apart, row r with at most 2 + r ships, 10 units
\* apart and centred on the axis, and every row but the last one full
IsWedgeFormation(f) ==
    /\ \A k \in 1..Len(f) : f[k].offset[3] \in {0, -15000, -30000} /\ f[k].offset[2] = 0
    /\ \A r \in 0..2 :
         LET slots == WedgeSlots(f, r)
         IN  /\ Len(slots) <= 2 + r
             /\ \A c \in 1..Len(slots) :
                  slots[c].offset[1] = 10000 * (c - 1) - 5000 * (Len(slots) - 1)
             /\ (r < 2 /\ Len(WedgeSlots(f, r + 1)) > 0) => Len(slots) = 2 + r

\* the circle: every slot 20 units from the centre (to the rounding of the
\* table) and no two slots less than 10 units apart
IsCircleFormation(f) ==
    /\ \A k \in 1..Len(f) :
         /\ f[k].offset[2] = 0
         /\ Abs((f[k].offset[1] \div 10) * (f[k].offset[1] \div 10)
                + (f[k].offset[3] \div 10) * (f[k].offset[3] \div 10)
                - 2000 * 2000) <= 8000
    /\ \A k, m \in 1..Len(f) :
         k # m => Abs(f[k].offset[1] - f[m].offset[1])
                  + Abs(f[k].offset[3] - f[m].offset[3]) >= 10000

\* formationPositions has one entry per member of the roster, in roster
\* order, and the shape that goes with the roster's size
FormationFitsRoster(s) ==
    LET f == s.formationPositions
        squadSize == Len(s.enemies)
    IN  /\ Len(f) = squadSize
        /\ \A k \in 1..squadSize : f[k].enemy = s.enemies[k]
        /\ squadSize <= 3 => IsVFormation(f)
        /\ (squadSize >= 4 /\ squadSize <= 6) => IsWedgeFormation(f)
        /\ squadSize >= 7 => IsCircleFormation(f)

\* C22: after every Squad.addEnemy and every Squad.removeEnemy the squad's
\* formationPositions has exactly one entry per current member and none for
\* anyone else, in the V-formation for up to 3 members, the wedge for 4 to 6
\* and the circle from 7 up; the enemy added has a slot, the enemy removed
\* has none.
C22_FormationRecomputedOnMembershipChange ==
    /\ \A k \in 1..Len(rLog) :
         /\ FormationFitsRoster(rLog[k].squad)
         /\ rLog[k].op = "addEnemy"
              => \E n \in 1..Len(rLog[k].squad.formationPositions) :
                     rLog[k].squad.formationPositions[n].enemy = rLog[k].enemy
         /\ rLog[k].op = "removeEnemy"
              => \A n \in 1..Len(rLog[k].squad.formationPositions) :
                     rLog[k].squad.formationPositions[n].enemy # rLog[k].enemy
    /\ \A k \in 1..Len(rSquads) : FormationFitsRoster(rSquads[k])

\* the death of a member has taken a squad from the circle to the wedge
C22_Witness ==
    \E k \in 1..Len(rLog) :
        /\ rLog[k].op = "removeEnemy"
        /\ Len(rLog[k].squad.enemies) = 6
        /\ IsWedgeFormation(rLog[k].squad.formationPositions)
        /\ rLog[k].squad.formationPositions[6].offset = <<0, 0, -30000>>

\* C27: in every squad of the registry, whatever its size and shape, the
\* formation offsets of two different members differ.
C27_NoSharedFormationSlot ==
    \A k \in 1..Len(rSquads) :
        \A i, j \in 1..Len(rSquads[k].formationPositions) :
            i # j => rSquads[k].formationPositions[i].offset
                     # rSquads[k].formationPositions[j].offset

----------------------------------------------------------------------------
(* One Enemy: Enemy.update, with its movement and its fire.                *)
(*                                                                         *)
(* The enemy moves on the line through the station (at 0) and the player   *)
(* (at 50 units).  Positions are in hundredths of a unit, velocities in    *)
(* hundredths of a unit per second, times in hundredths of a second.  The  *)
(* sideways part of a move (the strafe) leaves the line and is left out.   *)
(* The ships are scouts and fighters of difficulty 1.                      *)

Units(n) == n * 100

EnemyTypes == {"scout", "fighter"}

\* configureByType, difficulty 1
EnemySpeed(type) == IF type = "scout" THEN 25 + 3 ELSE 18 + 2
EnemyFireRate(type) == IF type = "scout" THEN Centis(150) ELSE Centis(200)
EnemyShootRange(type) == IF type = "scout" THEN Units(50) ELSE Units(60)

\* updateCombatMovement: switch (this.type)
OptimalRange(type) ==
    CASE type = "scout" -> Units(40) [] type = "fighter" -> Units(50)
      [] type = "heavy" -> Units(55) [] type = "destroyer" -> Units(60)
      [] OTHER -> Units(50)

rangeDeadzone == Units(5)
FullSpeedError == Units(20)
FormationArrival == Units(2)

\* this.target === 'player' ? this.player.position : this.station.position
EnemyTargetPos(target) == IF target = "player" THEN Units(PlayerDistance) ELSE 0

\* where enemies are created and where formation slots lie
EnemyStarts == {Units(45), Units(55), Units(90), Units(150)}
FormationSlots == {Units(90), Units(150)}

\* x * num / den, rounded toward zero
Scale(x, num, den) == Sign(x) * ((Abs(x) * num) \div den)

\* if (Math.abs(distanceError) < rangeDeadzone) ... else if (distanceError >
\* rangeDeadzone) ... else
CombatZone(distanceError) ==
    IF Abs(distanceError) < rangeDeadzone THEN "strafe"
    ELSE IF distanceError > rangeDeadzone THEN "approach"
    ELSE "retreat"

\* Math.min(1, Math.abs(distanceError) / 20), in hundredths
SpeedMultiplier(distanceError) ==
    IF Abs(distanceError) < FullSpeedError
    THEN (Abs(distanceError) * 100) \div FullSpeedError
    ELSE 100

\* Enemy.updateCombatMovement; the approach and retreat directions carry a
\* strafe component of 0.2, which leaves 0.98 of the speed along the line
Enemy_updateCombatMovement(e, dt, targetPos, distance) ==
    LET distanceError == distance - OptimalRange(e.type)
        zone == CombatZone(distanceError)
        toTarget == Sign(targetPos - e.position)
        speed == Units(EnemySpeed(e.type))
        velocity ==
            CASE zone = "strafe"   -> 0
              [] zone = "approach" ->
                   toTarget * Scale(Scale(speed, SpeedMultiplier(distanceError), 100), 98, 100)
              [] OTHER ->
                   (0 - toTarget) * Scale(Scale(speed, SpeedMultiplier(distanceError), 100), 98, 100)
    IN  [e |-> [e EXCEPT !.velocity = velocity,
                         !.position = @ + Scale(velocity, dt, CentisPerSecond)],
         zone |-> zone, distanceError |-> distanceError,
         speedMultiplier |-> IF zone = "strafe" THEN 30
                             ELSE SpeedMultiplier(distanceError)]

\* the formation branch of Enemy.update
Enemy_followFormation(e, dt, targetPos, distance) ==
    LET velocity == IF distance > FormationArrival
                    THEN Sign(targetPos - e.position)
                         * Scale(Units(EnemySpeed(e.type)), 8, 10)
                    ELSE Scale(e.velocity, 95, 100)
    IN  [e EXCEPT !.velocity = velocity,
                  !.position = @ + Scale(velocity, dt, CentisPerSecond)]

\* the distance of 'distance < this.shootRange': the one computed for the
\* movement, before the move
ShootDistance(e, distance) == distance

\* Enemy.update
Enemy_update(e, dt) ==
    LET mode == IF e.inFormation /\ e.formationTarget.set THEN "formation"
                ELSE IF e.combatTarget.set THEN "combat"
                ELSE "solo"
        targetPos == CASE mode = "formation" -> e.formationTarget.pos
                       [] mode = "combat"    -> e.combatTarget.pos
                       [] OTHER              -> EnemyTargetPos(e.target)
        distance == Abs(targetPos - e.position)
        combat == Enemy_updateCombatMovement(e, dt, targetPos, distance)
        moved == IF mode = "formation"
                 THEN Enemy_followFormation(e, dt, targetPos, distance)
                 ELSE combat.e
        cooldown == IF moved.shootCooldown - dt > 0 THEN moved.shootCooldown - dt ELSE 0
        fires == cooldown <= 0 /\ ShootDistance(moved, distance) < EnemyShootRange(e.type)
        after == IF fires
                 THEN [moved EXCEPT !.shootCooldown = EnemyFireRate(e.type),
                                    !.projectiles = @ + 1]
                 ELSE [moved EXCEPT !.shootCooldown = cooldown]
    IN  [e |-> after,
         log |-> [called |-> TRUE, mode |-> mode,
                  zone |-> IF mode = "formation" THEN "none" ELSE combat.zone,
                  distanceError |-> IF mode = "formation" THEN 0 ELSE combat.distanceError,
                  speedMultiplier |-> IF mode = "formation" THEN 0
                                      ELSE combat.speedMultiplier,
                  moved |-> (Abs(targetPos - moved.position) - distance),
                  fired |-> fires, cooldown |-> cooldown,
                  shotDistance |-> Abs(EnemyTargetPos(e.target) - moved.position)]]

outsideEnemy == <<fragmentVars, ledgerVars, combatVars, squadVars, missileVars, gunVars, configVars,
                  rosterVars, turretVars>>

\* new Enemy(...): by spawnSquad (with a squad) or by spawnEnemy (solo)
EnemySpawn ==
    /\ ~en.spawned
    /\ \E type \in EnemyTypes, position \in EnemyStarts,
          target \in {"player", "station"}, hasSquad \in BOOLEAN :
         en' = [en EXCEPT !.spawned = TRUE, !.type = type, !.position = position,
                          !.target = target, !.hasSquad = hasSquad]
    /\ UNCHANGED <<enPrev, enUpdates, outsideEnemy>>

\* Squad.updateApproaching / updateRetreating / updateRegrouping: the member
\* is sent to its formation slot
SquadOrdersFormation ==
    /\ en.spawned /\ en.hasSquad
    /\ enUpdates < MaxEnemyUpdates
    /\ \E slot \in FormationSlots :
         en' = [en EXCEPT !.inFormation = TRUE,
                          !.formationTarget = [set |-> TRUE, pos |-> slot]]
    /\ UNCHANGED <<enPrev, enUpdates, outsideEnemy>>

\* Squad.updateEngaging: the member is released onto the squad's target
SquadOrdersEngage ==
    /\ en.spawned /\ en.hasSquad
    /\ enUpdates < MaxEnemyUpdates
    /\ \E targetType \in {"player", "station"} :
         en' = [en EXCEPT !.inFormation = FALSE,
                          !.combatTarget = [set |-> TRUE,
                                            pos |-> EnemyTargetPos(targetType)]]
    /\ UNCHANGED <<enPrev, enUpdates, outsideEnemy>>

\* Enemy.update, called by the enemies loop of EnemyManager.update
EnemyUpdate ==
    /\ en.spawned
    /\ enUpdates < MaxEnemyUpdates
    /\ \E dt \in FireDts :
         LET r == Enemy_update(en, dt)
         IN  /\ en' = r.e
             /\ enPrev' = r.log
    /\ enUpdates' = enUpdates + 1
    /\ UNCHANGED outsideEnemy

NextEnemy ==
    \/ EnemySpawn
    \/ SquadOrdersFormation
    \/ SquadOrdersEngage
    \/ EnemyUpdate

SpecEnemy == Init /\ [][NextEnemy]_vars

\* C23: an update in which the enemy creates a projectile finds the shoot
\* cooldown run out and the enemy closer than shootRange to the target it
\* shoots at, in formation flight as in combat.
C23_FiresOnlyWithinShootRange ==
    (enPrev.called /\ enPrev.fired) =>
        /\ enPrev.cooldown = 0
        /\ enPrev.shotDistance < EnemyShootRange(en.type)

\* C24: the movement is a three-zone controller on distanceError: strafe
\* inside the 5-unit deadzone, approach only for an error above it, retreat
\* only for an error below it, at a speed scaled by min(1, |error| / 20);
\* the enemy never retreats when distanceError >= 0 and never approaches
\* when distanceError <= 0, the boundaries +5 and -5 included.
C24_ThreeZoneController ==
    (enPrev.called /\ enPrev.mode # "formation") =>
        /\ Abs(enPrev.distanceError) < rangeDeadzone => enPrev.zone = "strafe"
        /\ enPrev.zone = "approach" => enPrev.distanceError > rangeDeadzone
        /\ enPrev.zone = "retreat" => enPrev.distanceError < 0 - rangeDeadzone
        /\ enPrev.zone \in {"approach", "retreat"} =>
             enPrev.speedMultiplier
               = (IF Abs(enPrev.distanceError) < Units(20)
                  THEN Abs(enPrev.distanceError) \div 20 ELSE 100)
        /\ enPrev.distanceError >= 0 => enPrev.zone # "retreat"
        /\ enPrev.distanceError <= 0 => enPrev.zone # "approach"

----------------------------------------------------------------------------
(* One Turret of the station and the enemies around it.                    *)
(*                                                                         *)
(* A frame is station.update (the turret), enemyManager.update (the dead   *)
(* leave the list, new ships arrive) and missileManager.checkCollisions    *)
(* (a missile may kill a ship).  An enemy is where it was met: a distance  *)
(* from the turret in units and a bearing in thousandths of a radian.      *)

PiMilli == 3142
AimTolerance == 170                  \* aimAccuracy < 0.17
TurretRotationSpeed == 3000          \* rotationSpeed = 3 rad/s

\* range = 80, raised by upgrade() to 80 + level x 10
TurretRange(level) == IF level = 1 THEN 80 ELSE 80 + level * 10
\* fireRate = 1, set by upgrade() to max(0.3, 1 - level x 0.1)
TurretFireRate(level) ==
    IF level = 1 THEN Centis(100)
    ELSE IF Centis(100) - level * Centis(10) > Centis(30)
         THEN Centis(100) - level * Centis(10) ELSE Centis(30)

TurretDistances == {30, 70, 100}
TurretBearings == {0, 100, 1000, 3100, -3100}

\* findNearestEnemy: for (const enemy of enemies), from index i, with the
\* nearest so far (0 for null) and its distance
RECURSIVE NearestFrom(_, _, _, _)
NearestFrom(es, i, nearest, nearestDist) ==
    IF i > Len(es) THEN nearest
    ELSE IF es[i].dist < nearestDist
         THEN NearestFrom(es, i + 1, i, es[i].dist)
         ELSE NearestFrom(es, i + 1, nearest, nearestDist)

\* Turret.findNearestEnemy
Turret_findNearestEnemy(t, es) == NearestFrom(es, 1, 0, TurretRange(t.level))

\* while (rotationDiff > PI) rotationDiff -= 2 PI; while (rotationDiff < -PI) ...
RECURSIVE NormalizeAngle(_)
NormalizeAngle(a) ==
    IF a > PiMilli THEN NormalizeAngle(a - 2 * PiMilli)
    ELSE IF a < 0 - PiMilli THEN NormalizeAngle(a + 2 * PiMilli)
    ELSE a

\* Turret.update
Turret_update(t, dt, es) ==
    LET cooldown == IF t.shootCooldown - dt > 0 THEN t.shootCooldown - dt ELSE 0
        target == Turret_findNearestEnemy(t, es)
        targetRotation == IF target # 0 THEN es[target].bearing ELSE t.targetRotation
        rotationDiff == NormalizeAngle(targetRotation - t.currentRotation)
        maxRotationThisFrame == (TurretRotationSpeed * dt) \div CentisPerSecond
        currentRotation ==
            IF target = 0 THEN t.currentRotation
            ELSE IF Abs(rotationDiff) < maxRotationThisFrame THEN targetRotation
            ELSE t.currentRotation + Sign(rotationDiff) * maxRotationThisFrame
        fires == target # 0 /\ cooldown <= 0 /\ Abs(rotationDiff) < AimTolerance
        live == { es[k].dist : k \in { n \in 1..Len(es) : es[n].isAlive } }
    IN  [t |-> [t EXCEPT !.targetRotation = targetRotation,
                         !.currentRotation = currentRotation,
                         !.shootCooldown = IF fires THEN TurretFireRate(t.level)
                                           ELSE cooldown,
                         !.projectiles = IF fires THEN @ + 1 ELSE @],
         log |-> [called |-> TRUE, target |-> target,
                  targetAlive |-> IF target # 0 THEN es[target].isAlive ELSE FALSE,
                  targetDist |-> IF target # 0 THEN es[target].dist ELSE 0,
                  nearestLive |-> IF live = {} THEN 0
                                  ELSE CHOOSE d \in live : \A x \in live : d <= x,
                  fired |-> fires, aimError |-> Abs(rotationDiff),
                  cooldown |-> cooldown]]

outsideTurret == <<fragmentVars, ledgerVars, combatVars, squadVars, missileVars, gunVars, configVars,
                   rosterVars, enemyVars>>

\* Station.update: turret.update
TurretUpdate ==
    /\ tphase = "station"
    /\ tFrames < MaxTurretFrames
    /\ \E dt \in FireDts :
         LET r == Turret_update(tur, dt, tEnemies)
         IN  /\ tur' = r.t
             /\ tPrev' = r.log
    /\ tphase' = "enemies"
    /\ tFrames' = tFrames + 1
    /\ UNCHANGED <<tEnemies, outsideTurret>>

\* EnemyManager.update, as the turret sees it: a ship may arrive, and the
\* dead ones leave the list
TurretEnemiesUpdate ==
    /\ tphase = "enemies"
    /\ \E spawn \in BOOLEAN, dist \in TurretDistances, bearing \in TurretBearings :
         LET arrived == IF spawn /\ Len(tEnemies) < MaxTurretEnemies
                        THEN Append(tEnemies, [isAlive |-> TRUE, dist |-> dist,
                                               bearing |-> bearing])
                        ELSE tEnemies
         IN  tEnemies' = SelectSeq(arrived, LAMBDA e : e.isAlive)
    /\ tphase' = "missiles"
    /\ UNCHANGED <<tur, tFrames, tPrev, outsideTurret>>

\* MissileManager.checkCollisions, as the turret sees it: a missile may
\* reach a live ship and kill it
TurretMissilesCheckCollisions ==
    /\ tphase = "missiles"
    /\ \E i \in 0..Len(tEnemies) :
         tEnemies' = IF i > 0 /\ tEnemies[i].isAlive
                     THEN [tEnemies EXCEPT ![i].isAlive = FALSE]
                     ELSE tEnemies
    /\ tphase' = "station"
    /\ UNCHANGED <<tur, tFrames, tPrev, outsideTurret>>

NextTurret ==
    \/ TurretUpdate
    \/ TurretEnemiesUpdate
    \/ TurretMissilesCheckCollisions

SpecTurret == Init /\ [][NextTurret]_vars

\* C25: the enemy a Turret.update aims at is alive and within the turret's
\* range and no live enemy of the list is nearer; a projectile is created
\* only with an aim error below 0.17 rad and the cooldown run out.
C25_EngagesNearestLiveEnemy ==
    tPrev.called =>
        /\ tPrev.target # 0 =>
             /\ tPrev.targetAlive
             /\ tPrev.targetDist < TurretRange(tur.level)
             /\ tPrev.nearestLive >= tPrev.targetDist
        /\ tPrev.fired =>
             /\ tPrev.target # 0
             /\ tPrev.aimError < AimTolerance
             /\ tPrev.cooldown = 0

----------------------------------------------------------------------------
(* Dead enemies still in the list *)

----------------------------------------------------------------------------
(* Missiles against asteroids: the engagement of SpecCombat, with          *)
(* MissileManager.checkAsteroidCollisions at the end of the frame.         *)

\* MissileManager.checkAsteroidCollisions: a missile reaches a live
\* asteroid, which is marked destroyed and gives its blue fragments; the
\* asteroid stays in AsteroidManager.asteroids
MissileManagerCheckAsteroidCollisions ==
    /\ phase = "player"
    /\ cframe > 0
    /\ cframe < MaxCombatFrames
    /\ \E i \in 1..Len(asteroids) :
         /\ asteroids[i].isAlive
         /\ asteroids' = [asteroids EXCEPT ![i].isAlive = FALSE,
                                           ![i].byMissile = TRUE]
    /\ UNCHANGED <<ledgerVars, squadVars, restVars, projectiles, enemies, squads, phase,
                   cframe, squadsSpawned, asteroidsSpawned, hitLog, asteroidLog>>

NextSalvage ==
    \/ NextCombat
    \/ MissileManagerCheckAsteroidCollisions

SpecSalvage == Init /\ [][NextSalvage]_vars

\* C28: an asteroid destroyed by a missile has paid out with the missile's
\* burst: when the asteroid manager removes it, it does not split it,
\* crash it into anything, register a hit on it or create another burst.
C28_MissileKillPaysOutOnce ==
    \A k \in 1..Len(asteroidLog) :
        asteroidLog[k].byMissile =>
            /\ asteroidLog[k].cause = "destroyed"
            /\ asteroidLog[k].hits = 0
            /\ asteroidLog[k].pieces = 0
            /\ asteroidLog[k].burst = "none"

----------------------------------------------------------------------------
(* Station turrets and the defense level *)

\* C29: in every reachable state the station has as many turrets as the
\* defense level, so every successful upgradeDefense mounts one new turret
\* and no turret is ever upgraded: all turrets are at level 1.
C29_OneTurretPerDefenseLevel ==
    /\ Len(turrets) = defenseLevel
    /\ \A i \in 1..Len(turrets) : turrets[i] = 1
    /\ (call.op = "upgradeDefense" /\ call.ret) =>
         Len(turrets) = Len(call.pre.turrets) + 1

\* the defense has been upgraded to level 3 and three turrets stand
C29_Witness ==
    /\ call.op = "upgradeDefense"
    /\ call.ret
    /\ defenseLevel = 3
    /\ Len(turrets) = 3



-----------------------------------------------------------------------------
(* Resource fragments: drift, gravity, collection and loss                 *)
(*                                                                         *)
(* One axis through the station, which stands at the origin.  Positions    *)
(* are in hundredths of a unit, velocities in hundredths of a unit per     *)
(* second, deltaTime in hundredths of a second.                            *)

playerGravityRange == Units(25)
playerGravityConstant == 500
stationGravityConstant == 800
collectDistance == Units(2)
gameAreaRadius == Units(300)
\* the 0.1 below which no pull is applied
GravityFloor == 10

\* the frame times: 0.05 s and the 0.1 s cap of Game.update
FragmentDts == {5, 10}
\* where the player is during a frame
FragmentPlayerPositions == {Units(40), Units(200)}
\* Station.gravityRange: 0 until the station is upgraded, then 30
StationGravityRanges == {0, Units(30)}
\* where a fragment appears: scattered around the hazard that broke up
FragmentStarts == {Units(2) + 10, Units(42), Units(300) - 5}
\* the random drift, within (-1, 1) units per second
FragmentDrifts == {-100, 100}
\* EnemyResourceFragment.value: ceil(resourceValue / fragmentCount)
EnemyFragmentValues == {1, 2}

\* new ResourceFragment / new EnemyResourceFragment
NewFragment(id, position, velocity, value) ==
    [id |-> id, position |-> position, velocity |-> velocity, value |-> value,
     isCollected |-> FALSE, isLost |-> FALSE]

\* G*M / r^2 over deltaTime, r in hundredths of a unit
Pull(constant, dist, deltaTime) ==
    (constant * 10000 * deltaTime) \div (dist * dist)

\* ResourceFragment.update and EnemyResourceFragment.update, which differ
\* only in the spin of the mesh
ResourceFragment_update(f, deltaTime, playerPos, stationPos, stationGravityRange) ==
    LET position == f.position + Sign(f.velocity) * ((Abs(f.velocity) * deltaTime) \div 100)
        distanceFromOrigin == Abs(position)
        toPlayer == playerPos - position
        playerDist == Abs(toPlayer)
        toStation == stationPos - position
        stationDist == Abs(toStation)
        v1 == IF playerDist > GravityFloor /\ playerDist < playerGravityRange
              THEN f.velocity
                     + Sign(toPlayer) * Pull(playerGravityConstant, playerDist, deltaTime)
              ELSE f.velocity
        v2 == IF stationGravityRange > 0 /\ stationDist > GravityFloor
                 /\ stationDist < stationGravityRange
              THEN v1 + Sign(toStation) * Pull(stationGravityConstant, stationDist, deltaTime)
              ELSE v1
    IN  IF distanceFromOrigin > gameAreaRadius
        THEN [f EXCEPT !.position = position, !.isLost = TRUE]
        ELSE [f EXCEPT !.position = position, !.velocity = v2,
                       !.isCollected = (playerDist < collectDistance
                                          \/ stationDist < collectDistance) \/ @]

\* how a fragment left its list: the entry the history keeps
Ended(w, f, end, credit) ==
    [id |-> f.id, manager |-> w.manager, end |-> end, value |-> f.value,
     credit |-> credit, isCollected |-> f.isCollected, isLost |-> f.isLost,
     epoch |-> w.epoch]

\* mutant: a collected fragment is credited and stays in the list
Manager_settleFragment_NoSplice(w, f) ==
    IF f.isCollected
    THEN [w EXCEPT !.collectedResources = @ + f.value,
                   !.fragments = <<f>> \o @,
                   !.log = Append(@, Ended(w, f, "collected", f.value))]
    ELSE IF f.isLost
    THEN [w EXCEPT !.log = Append(@, Ended(w, f, "lost", 0))]
    ELSE [w EXCEPT !.fragments = <<f>> \o @]

\* the body of the fragment loop after fragment.update: credit and splice a
\* collected fragment, else splice a lost one, else keep it
Manager_settleFragment(w, f) ==
    IF f.isCollected
    THEN [w EXCEPT !.collectedResources = @ + f.value,
                   !.log = Append(@, Ended(w, f, "collected", f.value))]
    ELSE IF f.isLost
    THEN [w EXCEPT !.log = Append(@, Ended(w, f, "lost", 0))]
    ELSE [w EXCEPT !.fragments = <<f>> \o @]

\* for (let i = fragments.length - 1; i >= 0; i--)
RECURSIVE Manager_updateFragments(_, _, _, _)
Manager_updateFragments(w, fs, i, tick) ==
    IF i = 0 THEN w
    ELSE Manager_updateFragments(
             Manager_settleFragment(w,
                 ResourceFragment_update(fs[i], tick.deltaTime, tick.playerPos, 0,
                                         tick.gravityRange)),
             fs, i - 1, tick)

FragmentWork(manager, counter) ==
    [manager |-> manager, fragments |-> << >>, collectedResources |-> counter,
     log |-> fLog, epoch |-> Len(fCalls)]

ledgerButCollected == <<resources, currentSector, stationCost, defenseCost,
                        shipGunsLevel, stationLevel, defenseLevel, weaponLevel,
                        station, turrets, difficulty2, frame, call, victory>>

outsideFragments == <<combatVars, squadVars, missileVars, gunVars, configVars,
                      rosterVars, enemyVars, turretVars>>

\* the fragments a hazard leaves when it breaks up during the manager's
\* update: none, or one of the burst
Burst(values) ==
    {<< >>} \cup
    IF fMade < MaxFragmentsMade
    THEN {<<NewFragment(fMade + 1, position, velocity, value)>> :
             position \in FragmentStarts, velocity \in FragmentDrifts, value \in values}
    ELSE {}

\* Game.update clamps deltaTime and calls AsteroidManager.update: asteroids
\* that break up push their fragments, then the fragment loop runs
AsteroidManagerUpdateFragments ==
    /\ fphase = "asteroidManager"
    /\ fFrames < MaxFragmentFrames
    /\ \E deltaTime \in FragmentDts, playerPos \in FragmentPlayerPositions,
          gravityRange \in StationGravityRanges, burst \in Burst({1}) :
         LET tick == [deltaTime |-> deltaTime, playerPos |-> playerPos,
                      gravityRange |-> gravityRange]
             fs == fragments \o burst
             w == Manager_updateFragments(FragmentWork("asteroid", asteroidCollected),
                                          fs, Len(fs), tick)
         IN  /\ fTick' = tick
             /\ fragments' = w.fragments
             /\ asteroidCollected' = w.collectedResources
             /\ fLog' = w.log
             /\ fMade' = fMade + Len(burst)
    /\ fFrames' = fFrames + 1
    /\ fphase' = "enemyManager"
    /\ UNCHANGED <<enemyFragments, enemyCollected, fCalls, ledgerButCollected,
                   outsideFragments>>

\* EnemyManager.update: dead enemies push their fragments, then the
\* fragment loop runs
EnemyManagerUpdateFragments ==
    /\ fphase = "enemyManager"
    /\ \E burst \in Burst(EnemyFragmentValues) :
         LET fs == enemyFragments \o burst
             w == Manager_updateFragments(FragmentWork("enemy", enemyCollected),
                                          fs, Len(fs), fTick)
         IN  /\ enemyFragments' = w.fragments
             /\ enemyCollected' = w.collectedResources
             /\ fLog' = w.log
             /\ fMade' = fMade + Len(burst)
    /\ fphase' = "missileManager"
    /\ UNCHANGED <<fragments, asteroidCollected, fTick, fFrames, fCalls,
                   ledgerButCollected, outsideFragments>>

\* Game.update: the blue fragments of checkAsteroidCollisions are pushed
\* onto AsteroidManager.fragments
GamePushBlueFragments ==
    /\ fphase = "missileManager"
    /\ \E burst \in Burst({1}) :
         /\ fragments' = fragments \o burst
         /\ fMade' = fMade + Len(burst)
    /\ fphase' = "progressionManager"
    /\ UNCHANGED <<enemyFragments, asteroidCollected, enemyCollected, fTick, fFrames,
                   fLog, fCalls, ledgerButCollected, outsideFragments>>

\* ProgressionManager.update: the three getCollectedResources calls
ProgressionManagerUpdate ==
    /\ fphase = "progressionManager"
    /\ LET A == asteroidCollected
           S == Station_collected(station)
           E == enemyCollected
           gain == ApplyMultiplier(A, weaponLevel) + S + ApplyMultiplier(E, weaponLevel)
       IN  /\ resources' = resources + gain
           /\ asteroidCollected' = getCollectedResources_reset(asteroidCollected)
           /\ station' = Station_drained(station)
           /\ enemyCollected' = getCollectedResources_reset(enemyCollected)
           /\ call' = [Called("update", TRUE, gain) EXCEPT !.A = A, !.S = S, !.E = E]
           /\ fCalls' = Append(fCalls, [asteroid |-> A, enemy |-> E])
    /\ fphase' = "asteroidManager"
    /\ UNCHANGED <<fragments, enemyFragments, fTick, fFrames, fMade, fLog>>
    /\ UNCHANGED <<currentSector, stationCost, defenseCost, shipGunsLevel, stationLevel,
                   defenseLevel, weaponLevel, turrets, difficulty2, frame, victory,
                   outsideFragments>>

NextFragments ==
    \/ AsteroidManagerUpdateFragments
    \/ EnemyManagerUpdateFragments
    \/ GamePushBlueFragments
    \/ ProgressionManagerUpdate

SpecFragments == Init /\ [][NextFragments]_vars

\* the credited values of one manager's fragments in one epoch: the time
\* between two getCollectedResources calls
RECURSIVE CollectedIn(_, _, _)
CollectedIn(manager, epoch, k) ==
    IF k = 0 THEN 0
    ELSE CollectedIn(manager, epoch, k - 1)
           + (IF fLog[k].manager = manager /\ fLog[k].epoch = epoch
                 /\ fLog[k].end = "collected"
              THEN fLog[k].value ELSE 0)

Listed == Range(fragments) \cup Range(enemyFragments)

\* C30: every fragment ends exactly one way and is credited at most once:
\* no fragment is both collected and lost; a collected fragment adds its
\* value to its manager's counter once and leaves the list in that update;
\* a lost fragment leaves without adding anything; getCollectedResources
\* returns the sum collected since the previous call and leaves 0.
C30_FragmentEndsOneWay ==
    /\ \A f \in Listed : ~f.isCollected /\ ~f.isLost
    /\ \A k \in 1..Len(fLog) :
         /\ ~(fLog[k].isCollected /\ fLog[k].isLost)
         /\ fLog[k].end = "collected" =>
              fLog[k].isCollected /\ fLog[k].credit = fLog[k].value
         /\ fLog[k].end = "lost" => fLog[k].isLost /\ fLog[k].credit = 0
         /\ \A j \in 1..Len(fLog) : fLog[j].id = fLog[k].id => j = k
         /\ \A f \in Listed : f.id # fLog[k].id
    /\ asteroidCollected = CollectedIn("asteroid", Len(fCalls), Len(fLog))
    /\ enemyCollected = CollectedIn("enemy", Len(fCalls), Len(fLog))
    /\ \A c \in 1..Len(fCalls) :
         /\ fCalls[c].asteroid = CollectedIn("asteroid", c - 1, Len(fLog))
         /\ fCalls[c].enemy = CollectedIn("enemy", c - 1, Len(fLog))
    /\ (fphase = "asteroidManager" /\ Len(fCalls) > 0) =>
         asteroidCollected = 0 /\ enemyCollected = 0

\* an enemy fragment worth 2 was collected and paid out by a
\* getCollectedResources call, and an asteroid fragment was lost
C30_Witness ==
    /\ \E k \in 1..Len(fLog) :
         fLog[k].manager = "enemy" /\ fLog[k].end = "collected" /\ fLog[k].value = 2
    /\ \E k \in 1..Len(fLog) : fLog[k].manager = "asteroid" /\ fLog[k].end = "lost"
    /\ \E c \in 1..Len(fCalls) : fCalls[c].enemy = 2
    /\ asteroidCollected = 0
    /\ enemyCollected = 0

====
